---- MODULE Spec2Model ----
(***************************************************************************)
(* Fair Marketplace (marketplace.js): the four seller-distribution         *)
(* strategies of class FairMarketplace, their pagination block, and the    *)
(* `search` command of CLIHandler, over a MongoDB collection of offers.    *)
(*                                                                         *)
(* A seller id is a tuple of one-character strings, so that $strLenCP,     *)
(* $substr and $toInt are computed as the store computes them.  An         *)
(* optional JavaScript argument is <<>> (null / not given) or <<v>>.       *)
(***************************************************************************)
EXTENDS Integers, Sequences, FiniteSets, TLC

VARIABLES
    collection,   \* the offers collection of the document store (a set of documents)
    now,          \* Date.now(), in milliseconds
    hist,         \* the calls of the current client session, oldest first
    exchangeRates,       \* the exchange_rates collection: currency -> toUSDRate
    exchangeRatesCache,  \* this.exchangeRatesCache: currency -> rate, a double
    listings,            \* the listings collection: _id -> document
    loading,      \* the find() replies that calls of refreshExchangeRateCache await
    conversions,  \* the latest convertToUSD / convertFromUSD calls, oldest first
    command,      \* the check or recalculation just run, and what it returned
    running       \* the call that awaits the store between two of its steps, with its locals

\* The state of the price conversion system
prices ==
    <<exchangeRates, exchangeRatesCache, listings, loading, conversions, command, running>>

vars == <<collection, now, hist, prices>>

-----------------------------------------------------------------------------
(* Bounds of the model *)

MaxOffers == 3        \* documents in the collection
MaxCalls == 2         \* calls of one client session
MaxLimit == 2         \* largest explicit page size below the configured maximum
MaxConversions == 2   \* conversions kept in the log
MaxRefreshes == 1     \* calls of refreshExchangeRateCache awaiting their reply
MaxListings == 2      \* documents in the listings collection
MaxRuns == 2          \* runs of a batch job
MaxTime == 1          \* instants of the price system's clock after the first

-----------------------------------------------------------------------------
(* Configuration (config.js) *)

defaultPageSize == 10
maxPageSize == 100
seedUpdateIntervalMinutes == 1
defaultMaxOffersPerSeller == 2
maxMaxOffersPerSeller == 10

None == <<>>
Some(v) == <<v>>

-----------------------------------------------------------------------------
(* JavaScript and MongoDB primitives *)

Digits == {"0", "1", "2", "3", "4", "5", "6", "7", "8", "9"}
Signs == {"-", "+"}

DigitVal(c) ==
    CASE c = "0" -> 0 [] c = "1" -> 1 [] c = "2" -> 2 [] c = "3" -> 3
      [] c = "4" -> 4 [] c = "5" -> 5 [] c = "6" -> 6 [] c = "7" -> 7
      [] c = "8" -> 8 [] c = "9" -> 9

RECURSIVE DecimalValue(_)
DecimalValue(s) ==
    IF s = <<>> THEN 0
    ELSE 10 * DecimalValue(SubSeq(s, 1, Len(s) - 1)) + DigitVal(s[Len(s)])

\* $toInt of a string: the whole string must be a base-10 integer; anything
\* else (the empty string included) makes the aggregation fail.  None = failure.
ToInt(s) ==
    LET body == IF s # <<>> /\ s[1] = "-" THEN Tail(s) ELSE s
        neg == s # <<>> /\ s[1] = "-"
    IN  IF body # <<>> /\ \A i \in 1..Len(body) : body[i] \in Digits
        THEN Some(IF neg THEN 0 - DecimalValue(body) ELSE DecimalValue(body))
        ELSE None

\* The longest prefix of s made of digits.
RECURSIVE DigitPrefix(_)
DigitPrefix(s) ==
    IF s # <<>> /\ s[1] \in Digits THEN <<s[1]>> \o DigitPrefix(Tail(s)) ELSE <<>>

\* parseInt(s) of JavaScript: an optional sign and the digits that follow it;
\* None stands for NaN (no digits) and for a missing argument (parseInt(undefined)).
ParseInt(s) ==
    LET neg == s # <<>> /\ s[1] = "-"
        digits == DigitPrefix(IF s # <<>> /\ s[1] \in Signs THEN Tail(s) ELSE s)
    IN  IF digits = <<>> THEN None
        ELSE Some(IF neg THEN 0 - DecimalValue(digits) ELSE DecimalValue(digits))

\* $substr [s, start, -1]: the rest of the string from the 0-based index start,
\* the empty string when start is past the end.
SubstrFrom(s, start) ==
    IF start >= Len(s) THEN <<>> ELSE SubSeq(s, start + 1, Len(s))

\* $mod: the remainder has the sign of the dividend.
MongoMod(a, b) ==
    IF a >= 0 THEN a % b ELSE 0 - ((0 - a) % b)

\* x || d of JavaScript on an optional number: null, undefined, 0 and NaN are falsy.
JsOr(x, d) ==
    IF x = None \/ x[1] = 0 THEN d ELSE x[1]

\* Math.floor(a / b) for b > 0.
MathFloorDiv(a, b) == a \div b

\* Math.floor(a / b) + 1: one page too many when b divides a.
MathFloorDivPlusOne(a, b) == (a \div b) + 1

\* Math.ceil(a / b) for b # 0.
MathCeilDiv(a, b) ==
    IF b > 0 THEN 0 - ((0 - a) \div b) ELSE 0 - (a \div (0 - b))

Min(a, b) == IF a <= b THEN a ELSE b
Max(a, b) == IF a >= b THEN a ELSE b

\* Array.prototype.slice(start, end).
JsSlice(seq, start, end) ==
    LET n == Len(seq)
        from == IF start < 0 THEN Max(n + start, 0) ELSE Min(start, n)
        to == IF end < 0 THEN Max(n + end, 0) ELSE Min(end, n)
    IN  IF from < to THEN SubSeq(seq, from + 1, to) ELSE <<>>

\* A page that runs one document too far.
SkipLimitInclusive(seq, skip, limit) ==
    SubSeq(seq, skip + 1, Min(skip + limit + 1, Len(seq)))

\* { $skip: skip }, { $limit: limit } on the documents reaching the stage
\* (skip >= 0 and limit > 0: the store rejects anything else).
SkipLimit(seq, skip, limit) ==
    SubSeq(seq, skip + 1, Min(skip + limit, Len(seq)))

\* Lexicographic order on integer tuples of one length.
RECURSIVE LexLess(_, _)
LexLess(a, b) ==
    /\ a # <<>>
    /\ \/ a[1] < b[1]
       \/ a[1] = b[1] /\ LexLess(Tail(a), Tail(b))

\* $sort: every order of the documents S that is ascending in key.  The store
\* gives no order to documents that compare equal: each of their orders is an
\* outcome.
RECURSIVE SortOutcomes(_, _)
SortOutcomes(S, key) ==
    IF S = {} THEN {<<>>}
    ELSE UNION { { <<x>> \o rest : rest \in SortOutcomes(S \ {x}, key) } :
                 x \in { y \in S : \A z \in S : ~LexLess(key[z], key[y]) } }

-----------------------------------------------------------------------------
(* Documents of the offers collection *)

SELLER_1 == <<"s", "e", "l", "l", "e", "r", "_", "1">>
SELLER_2 == <<"s", "e", "l", "l", "e", "r", "_", "2">>
SELLER_1001 == <<"s", "e", "l", "l", "e", "r", "_", "1", "0", "0", "1">>
BOB == <<"b", "o", "b">>

\* seller_<n> as seedData writes them, and one identifier of another scheme.
SellerIds == {SELLER_1, SELLER_2, SELLER_1001, BOB}

\* <<rating * 10, createdAt as a day number>>: a better and older offer, a worse
\* and newer one, and one that is worse and older than both.
Qualities == {<<47, 1>>, <<41, 2>>, <<41, 1>>}

Offer(i, c, s, r, t) ==
    [id |-> i, gameCategory |-> c, sellerId |-> s, rating |-> r, createdAt |-> t]

\* A document of the category under test, without its _id.
Shapes == { <<s, q[1], q[2]>> : s \in SellerIds, q \in Qualities }

SellerRank(s) ==
    CASE s = SELLER_1 -> 1 [] s = SELLER_2 -> 2 [] s = SELLER_1001 -> 3 [] s = BOB -> 4

ShapeKey(sh) == <<SellerRank(sh[1]), sh[2], sh[3]>>

\* The collections of the model: offer_1..offer_n of category RPG and possibly
\* one offer of another category.  _id is unique and only a label, so the
\* documents are numbered in one order of their contents.
Collections(maxOffers) ==
    { { Offer(i, "RPG", f[i][1], f[i][2], f[i][3]) : i \in DOMAIN f } \cup other :
        f \in { g \in UNION { [1..n -> Shapes] : n \in 0..maxOffers } :
                  \A i \in DOMAIN g : \A j \in DOMAIN g :
                      i < j => ~LexLess(ShapeKey(g[j]), ShapeKey(g[i])) },
        other \in { { Offer(0, "FPS", SELLER_2, 47, 2) } } }

\* A seller identifier of eight characters that does not end in a number:
\* sellerId is a free string of the collection, only seedData writes seller_<n>.
MERCHANT == <<"m", "e", "r", "c", "h", "a", "n", "t">>

HashSellerIds == {SELLER_1, SELLER_2, BOB, MERCHANT}

HashShapes == { <<s, q[1], q[2]>> : s \in HashSellerIds, q \in Qualities }

\* offer_1..offer_n of category RPG with sellers of every kind of identifier.
HashCollections(maxOffers) ==
    { { Offer(i, "RPG", f[i][1], f[i][2], f[i][3]) : i \in DOMAIN f } :
        f \in UNION { [1..n -> HashShapes] : n \in 0..maxOffers } }

-----------------------------------------------------------------------------
(* Aggregation stages shared by the strategies *)

\* { $match: { gameCategory } }
Match(coll, gameCategory) == { d \in coll : d.gameCategory = gameCategory }

\* countDocuments({}): the filter left out.
CountAllDocuments(coll, gameCategory) == Cardinality(coll)

\* countDocuments({ gameCategory })
CountDocuments(coll, gameCategory) == Cardinality(Match(coll, gameCategory))

\* { $sort: { rating: -1, createdAt: -1 } }
QualityKey(S) == [d \in S |-> <<0 - d.rating, 0 - d.createdAt>>]

SellersOf(S) == { d.sellerId : d \in S }

\* $group { _id: "$sellerId", offers: { $push: "$$ROOT" } } after a $sort: the
\* array of a group holds its documents in the order they arrive.
GroupOffers(sorted, sellerId) ==
    LET OfSeller(d) == d.sellerId = sellerId
    IN  SelectSeq(sorted, OfSeller)

RECURSIVE Flatten(_)
Flatten(seqs) ==
    IF seqs = <<>> THEN <<>> ELSE Head(seqs) \o Flatten(Tail(seqs))

\* The pagination block every strategy returns.
Pagination(page, limit, totalCount) ==
    [page |-> page,
     limit |-> limit,
     total |-> totalCount,
     totalPages |-> MathCeilDiv(totalCount, limit),
     hasNextPage |-> page * limit < totalCount,
     hasPrevPage |-> page > 1]

\* const seed = randomSeed || Math.floor(Date.now() / seedInterval)
SeedClock(randomSeed, dateNow) ==
    JsOr(randomSeed, MathFloorDiv(dateNow, seedUpdateIntervalMinutes * 60000))

\* What a call leaves with its caller: the request, the clock reading, the error
\* thrown ("none" when the call returns), the queries sent to the store, the
\* sequence before pagination and the result object.
Returned(req, at, seed, maxPerSeller, method, full, offers, totalCount) ==
    [req |-> req, at |-> at, err |-> "none", queries |-> 2,
     full |-> full, offers |-> offers,
     pagination |-> Pagination(req.page, JsOr(req.limit, defaultPageSize), totalCount),
     seed |-> seed, maxPerSeller |-> maxPerSeller, method |-> method]

Thrown(req, at, err, queries) ==
    [req |-> req, at |-> at, err |-> err, queries |-> queries,
     full |-> <<>>, offers |-> <<>>,
     pagination |-> Pagination(0, 1, 0),
     seed |-> None, maxPerSeller |-> None, method |-> "none"]

Request(method, gameCategory, page, limit, randomSeed, maxPerSeller) ==
    [method |-> method, gameCategory |-> gameCategory, page |-> page, limit |-> limit,
     randomSeed |-> randomSeed, maxPerSeller |-> maxPerSeller, cli |-> None]

-----------------------------------------------------------------------------
(* Method 1: Hash-Based Round-Robin *)

\* The $addFields stage: sellerHash of a document, None when $toInt fails.
SellerHash(d, seed) ==
    LET n == ToInt(IF Len(d.sellerId) > 7 THEN SubstrFrom(d.sellerId, 7) ELSE <<"1">>)
    IN  IF n = None THEN None
        ELSE Some(MongoMod((n[1] + seed) * (seed + 37), 10000))

\* { $sort: { sellerHash: 1, rating: -1, createdAt: -1 } }
HashSortKey(S, seed) ==
    [d \in S |-> <<SellerHash(d, seed)[1], 0 - d.rating, 0 - d.createdAt>>]

\* The results getOffersHashRoundRobin can return or throw.
HashRoundRobinResults(coll, req, dateNow) ==
    LET limit == JsOr(req.limit, defaultPageSize)
        skip == (req.page - 1) * limit
        seed == SeedClock(req.randomSeed, dateNow)
        matched == Match(coll, req.gameCategory)
    IN  IF skip < 0 \/ limit <= 0
        THEN { Thrown(req, dateNow, "InvalidPipeline", 1) }
        ELSE IF \E d \in matched : SellerHash(d, seed) = None
        THEN { Thrown(req, dateNow, "ConversionFailure", 1) }
        ELSE { Returned(req, dateNow, Some(seed), None, "Hash-Based Round-Robin",
                        sorted, SkipLimit(sorted, skip, limit),
                        CountDocuments(coll, req.gameCategory)) :
               sorted \in SortOutcomes(matched, HashSortKey(matched, seed)) }

-----------------------------------------------------------------------------
(* Method 2: True Round-Robin *)

\* sellerOrder of a seller group, None when $toInt fails.
SellerOrder(sellerId, seed) ==
    LET n == ToInt(SubstrFrom(sellerId, 7))
    IN  IF n = None THEN None ELSE Some(MongoMod(n[1] + seed, 1000))

\* { $sort: { sellerOrder: 1 } }
SellerOrderKey(sellers, seed) ==
    [s \in sellers |-> <<SellerOrder(s, seed)[1]>>]

\* One round: the offer at index round (from 1) of every group that has one.
RECURSIVE TakeRound(_, _)
TakeRound(groups, round) ==
    IF groups = <<>> THEN <<>>
    ELSE (IF round <= Len(Head(groups)) THEN <<Head(groups)[round]>> ELSE <<>>)
         \o TakeRound(Tail(groups), round)

RECURSIVE MaxLen(_)
MaxLen(groups) ==
    IF groups = <<>> THEN 0 ELSE Max(Len(Head(groups)), MaxLen(Tail(groups)))

\* A seller's listings one after the other, seller by seller.
RoundRobinBySeller(groups) == Flatten(groups)

\* for (round ...) for (sellerGroup of sellerGroups) if (offers[round]) push
RoundRobin(groups) ==
    Flatten([round \in 1..MaxLen(groups) |-> TakeRound(groups, round)])

\* The results getOffersTrueRoundRobin can return or throw.
TrueRoundRobinResults(coll, req, dateNow) ==
    LET limit == JsOr(req.limit, defaultPageSize)
        skip == (req.page - 1) * limit
        seed == SeedClock(req.randomSeed, dateNow)
        matched == Match(coll, req.gameCategory)
        sellers == SellersOf(matched)
    IN  IF \E s \in sellers : SellerOrder(s, seed) = None
        THEN { Thrown(req, dateNow, "ConversionFailure", 1) }
        ELSE { LET groups == [i \in DOMAIN order |-> GroupOffers(sorted, order[i])]
                   roundRobinOffers == RoundRobin(groups)
               IN  Returned(req, dateNow, Some(seed), None, "True Round-Robin (JavaScript)",
                            roundRobinOffers,
                            JsSlice(roundRobinOffers, skip, skip + limit),
                            CountDocuments(coll, req.gameCategory)) :
               sorted \in SortOutcomes(matched, QualityKey(matched)),
               order \in SortOutcomes(sellers, SellerOrderKey(sellers, seed)) }

-----------------------------------------------------------------------------
(* Method 3: Weighted Random *)

\* The values $rand is seen to draw, times 100.
RandDraws == {0, 40, 80}

RECURSIVE Factorial(_)
Factorial(n) == IF n <= 1 THEN 1 ELSE n * Factorial(n - 1)

\* Makes 100 / (sellerOfferCount + 1) a whole number for every count in the model.
ScoreScale == Factorial(MaxOffers + 2)

\* The $lookup stage: the seller's offers in the same category.
SellerOfferCount(coll, d) ==
    Cardinality({ e \in coll : e.sellerId = d.sellerId /\ e.gameCategory = d.gameCategory })

\* weightedScore = randomScore * 100 + 100 / (sellerOfferCount + 1), times ScoreScale.
WeightedScore(coll, d, randomScore) ==
    randomScore * ScoreScale + (100 * ScoreScale) \div (SellerOfferCount(coll, d) + 1)

\* The random score left out of the sort: { $sort: { _id: 1 } }.
WeightedSortKeyById(coll, S, rand) == [d \in S |-> <<d.id>>]

\* { $sort: { weightedScore: -1 } }
WeightedSortKey(coll, S, rand) ==
    [d \in S |-> <<0 - WeightedScore(coll, d, rand[d])>>]

\* What getOffersWeightedRandom returns when $rand draws rand[d] for document d.
WeightedRandomDraw(coll, req, dateNow, rand) ==
    LET limit == JsOr(req.limit, defaultPageSize)
        skip == (req.page - 1) * limit
        matched == Match(coll, req.gameCategory)
    IN  { Returned(req, dateNow, None, None, "Weighted Random Distribution",
                   sorted, SkipLimit(sorted, skip, limit),
                   CountDocuments(coll, req.gameCategory)) :
          sorted \in SortOutcomes(matched, WeightedSortKey(coll, matched, rand)) }

\* The results getOffersWeightedRandom can return or throw.
WeightedRandomResults(coll, req, dateNow) ==
    LET limit == JsOr(req.limit, defaultPageSize)
        skip == (req.page - 1) * limit
        matched == Match(coll, req.gameCategory)
    IN  IF skip < 0 \/ limit <= 0
        THEN { Thrown(req, dateNow, "InvalidPipeline", 1) }
        ELSE UNION { WeightedRandomDraw(coll, req, dateNow, rand) :
                     rand \in [matched -> RandDraws] }

-----------------------------------------------------------------------------
(* Method 4: Quota-Based *)

\* { $slice: [array, n] }: the first n elements, the last -n when n is negative.
MongoSlice(array, n) ==
    IF n >= 0 THEN SubSeq(array, 1, Min(n, Len(array)))
    ELSE SubSeq(array, Max(Len(array) + n, 0) + 1, Len(array))

\* maxPerSeller = maxPerSeller || default; capped at maxMaxOffersPerSeller.
EffectiveMaxPerSeller(maxPerSeller) ==
    LET m == JsOr(maxPerSeller, defaultMaxOffersPerSeller)
    IN  IF m > maxMaxOffersPerSeller THEN maxMaxOffersPerSeller ELSE m

\* The $project stage left out: every offer of the seller.
TopOffersUncapped(sorted, sellerId, maxPerSeller) == GroupOffers(sorted, sellerId)

\* $project { topOffers: { $slice: ["$topOffers", maxPerSeller] } }
TopOffers(sorted, sellerId, maxPerSeller) ==
    MongoSlice(GroupOffers(sorted, sellerId), maxPerSeller)

\* { $sort: { randomOrder: 1 } } on randomOrder: { $rand: {} }: any order of the sellers.
RandomOrders(sellers) == SortOutcomes(sellers, [s \in sellers |-> <<0>>])

\* The results getOffersQuotaBased can return or throw.
QuotaBasedResults(coll, req, dateNow) ==
    LET limit == JsOr(req.limit, defaultPageSize)
        maxPerSeller == EffectiveMaxPerSeller(req.maxPerSeller)
        skip == (req.page - 1) * limit
        matched == Match(coll, req.gameCategory)
        sellers == SellersOf(matched)
    IN  IF skip < 0 \/ limit <= 0
        THEN { Thrown(req, dateNow, "InvalidPipeline", 1) }
        ELSE { LET flat == Flatten([i \in DOMAIN order |->
                                       TopOffers(sorted, order[i], maxPerSeller)])
               IN  Returned(req, dateNow, None, Some(maxPerSeller), "Quota-Based Distribution",
                            flat, SkipLimit(flat, skip, limit),
                            CountDocuments(coll, req.gameCategory)) :
               sorted \in SortOutcomes(matched, QualityKey(matched)),
               order \in RandomOrders(sellers) }

-----------------------------------------------------------------------------
(* The price conversion system after construction *)

\* new Map(), and a collection without documents
NoEntries == [k \in {} |-> 0]

\* new PriceConversionSystem() on a fresh database
Constructed ==
    /\ exchangeRates = NoEntries
    /\ exchangeRatesCache = NoEntries
    /\ listings = NoEntries
    /\ loading = {}
    /\ conversions = <<>>
    /\ command = <<>>
    /\ running = <<>>

-----------------------------------------------------------------------------
(* The callers *)

Instants == {180000, 239999, 240000}

Last == hist[Len(hist)]

Requests(method, pages, limits, seeds, quotas) ==
    { Request(method, "RPG", p, l, s, m) :
      p \in pages, l \in limits, s \in seeds, m \in quotas }

\* The requests a caller can make next: one of first to open a session, then
\* the same request again or the one for the next page.
NextRequests(first) ==
    IF hist = <<>> THEN first
    ELSE IF Len(hist) < MaxCalls /\ Last.req \in first
    THEN { [Last.req EXCEPT !.page = p] : p \in {Last.req.page, Last.req.page + 1} }
    ELSE {}

Answer(results) ==
    /\ \E r \in results : hist' = Append(hist, r)
    /\ UNCHANGED <<collection, now, prices>>

getOffersHashRoundRobin(first) ==
    \E req \in NextRequests(first) :
        Answer(HashRoundRobinResults(collection, req, now))

getOffersTrueRoundRobin(first) ==
    \E req \in NextRequests(first) :
        Answer(TrueRoundRobinResults(collection, req, now))

getOffersWeightedRandom(first) ==
    \E req \in NextRequests(first) :
        Answer(WeightedRandomResults(collection, req, now))

getOffersQuotaBased(first) ==
    \E req \in NextRequests(first) :
        Answer(QuotaBasedResults(collection, req, now))

HashMethodNames == {"hash-round-robin", "round-robin"}
SeedBased == {"hash", "true"}

\* CLIHandler.handleCommand, case 'search': args is <<args[4], args[5], args[6],
\* args[7]>>, each None when the command line ends before it.  An unknown
\* method prints a message and returns; an error of the strategy is caught and
\* printed.  A process runs one command.
Search(args) ==
    LET method == IF args[1] = None THEN "hash-round-robin" ELSE args[1][1]
        page == JsOr(IF args[2] = None THEN None ELSE ParseInt(args[2][1]), 1)
        limit == JsOr(IF args[3] = None THEN None ELSE ParseInt(args[3][1]), defaultPageSize)
        customSeed == IF args[4] = None \/ args[4][1] = <<>> THEN None ELSE ParseInt(args[4][1])
        maxPerSeller == JsOr(IF args[4] = None THEN None ELSE ParseInt(args[4][1]),
                             defaultMaxOffersPerSeller)
        Cli(strategy, seed, quota) ==
            [Request(strategy, "RPG", page, Some(limit), seed, quota) EXCEPT !.cli = Some(args)]
    IN  /\ hist = <<>>
        /\ Answer(CASE method \in HashMethodNames ->
                         HashRoundRobinResults(collection, Cli("hash", customSeed, None), now)
                    [] method = "true-round-robin" ->
                         TrueRoundRobinResults(collection, Cli("true", customSeed, None), now)
                    [] method = "weighted" ->
                         WeightedRandomResults(collection, Cli("weighted", None, None), now)
                    [] method = "quota" ->
                         QuotaBasedResults(collection, Cli("quota", None, Some(maxPerSeller)), now)
                    [] OTHER ->
                         { Thrown(Cli(method, None, None), now, "UnknownMethod", 0) })

\* The caller is done with its results.
EndSession ==
    /\ hist # <<>>
    /\ hist' = <<>>
    /\ UNCHANGED <<collection, now, prices>>

\* Time passes.
Tick ==
    /\ \E t \in Instants : t > now /\ now' = t
    /\ UNCHANGED <<collection, hist, prices>>

\* A caller that pages through a category with well-formed requests.
BrowseLimits == {None} \cup { Some(l) : l \in 1..MaxLimit }
BrowseSeeds == {None, Some(0), Some(1)}
BrowseQuotas == {None, Some(1), Some(2), Some(maxMaxOffersPerSeller + 1)}

BrowseHash == Requests("hash", {1}, BrowseLimits, BrowseSeeds, {None})
BrowseTrue == Requests("true", {1}, BrowseLimits, BrowseSeeds, {None})
BrowseWeighted == Requests("weighted", {1}, BrowseLimits, {None}, {None})
BrowseQuota == Requests("quota", {1}, BrowseLimits, {None}, BrowseQuotas)

Init ==
    /\ collection \in Collections(MaxOffers)
    /\ now = 180000
    /\ hist = <<>>
    /\ Constructed

Next ==
    \/ getOffersHashRoundRobin(BrowseHash)
    \/ getOffersTrueRoundRobin(BrowseTrue)
    \/ getOffersWeightedRandom(BrowseWeighted)
    \/ getOffersQuotaBased(BrowseQuota)
    \/ EndSession

Spec == Init /\ [][Next]_vars

\* Callers that pass any numbers, the command line, and the clock.
PageArgs == {-1, 0, 1, 2}
LimitArgs == {None, Some(0), Some(maxPageSize + 1)} \cup { Some(l) : l \in 1..MaxLimit }
SeedArgs == {None, Some(0), Some(1)}
QuotaArgs == {None, Some(0), Some(-1), Some(2)}

CommandLines ==
    { <<m, p, l, a>> :
      m \in {None, Some("hash-round-robin"), Some("round-robin"), Some("true-round-robin"),
             Some("weighted"), Some("quota"), Some("fastest")},
      p \in {None, Some(<<"0">>), Some(<<"-", "1">>), Some(<<"2">>), Some(<<"x">>)},
      l \in {None, Some(<<"0">>), Some(<<"2">>), Some(<<"1", "0", "1">>)},
      a \in {None, Some(<<"0">>), Some(<<"1">>)} }

AnyHash == Requests("hash", PageArgs, LimitArgs, SeedArgs, {None})
AnyTrue == Requests("true", PageArgs, LimitArgs, SeedArgs, {None})
AnyWeighted == Requests("weighted", PageArgs, LimitArgs, {None}, {None})
AnyQuota == Requests("quota", PageArgs, LimitArgs, {None}, QuotaArgs)

InitArgs ==
    /\ collection \in Collections(MaxOffers - 1)
    /\ now = 180000
    /\ hist = <<>>
    /\ Constructed

NextArgs ==
    \/ getOffersHashRoundRobin(AnyHash)
    \/ getOffersTrueRoundRobin(AnyTrue)
    \/ getOffersWeightedRandom(AnyWeighted)
    \/ getOffersQuotaBased(AnyQuota)
    \/ \E args \in CommandLines : Search(args)
    \/ EndSession
    \/ Tick

SpecArgs == InitArgs /\ [][NextArgs]_vars

\* Callers of the Hash-Based Round-Robin on collections whose seller
\* identifiers are of any form.
InitHash ==
    /\ collection \in HashCollections(MaxOffers)
    /\ now = 180000
    /\ hist = <<>>
    /\ Constructed

NextHash ==
    \/ getOffersHashRoundRobin(BrowseHash)
    \/ EndSession

SpecHash == InitHash /\ [][NextHash]_vars

-----------------------------------------------------------------------------
(***************************************************************************)
(* Price Conversion System (price-conversion.js)                           *)
(*                                                                         *)
(* JavaScript numbers and MongoDB doubles are IEEE 754 binary64 values.    *)
(* A positive double is [m, e] with 2^52 <= m < 2^53 and value m * 2^e;    *)
(* zero has m = <<>>.  m is a natural number of any size, written as its   *)
(* base-10000 digits, lowest first.  Amounts are decimals counted in       *)
(* ten-thousandths (17.8 is 178000) and rates in hundred-millionths        *)
(* (0.0178 is 1780000), as their Decimal128 strings in the store spell     *)
(* them.  Magnitudes stay far from overflow and from subnormal numbers.    *)
(***************************************************************************)
BigBase == 10000

RECURSIVE BigFromNat(_)
BigFromNat(n) == IF n = 0 THEN <<>> ELSE <<n % BigBase>> \o BigFromNat(n \div BigBase)

RECURSIVE BigToNat(_)
BigToNat(a) == IF a = <<>> THEN 0 ELSE a[1] + BigBase * BigToNat(Tail(a))

RECURSIVE BigTrim(_)
BigTrim(a) ==
    IF a # <<>> /\ a[Len(a)] = 0 THEN BigTrim(SubSeq(a, 1, Len(a) - 1)) ELSE a

\* -1, 0 or 1 as a is below, equal to or above b (both without leading zeros).
RECURSIVE BigCmpFrom(_, _, _)
BigCmpFrom(a, b, i) ==
    IF i = 0 THEN 0
    ELSE IF a[i] < b[i] THEN 0 - 1
    ELSE IF a[i] > b[i] THEN 1
    ELSE BigCmpFrom(a, b, i - 1)

BigCmp(a, b) ==
    IF Len(a) < Len(b) THEN 0 - 1
    ELSE IF Len(a) > Len(b) THEN 1
    ELSE BigCmpFrom(a, b, Len(a))

RECURSIVE BigAddCarry(_, _, _)
BigAddCarry(a, b, carry) ==
    IF a = <<>> /\ b = <<>> THEN (IF carry = 0 THEN <<>> ELSE <<carry>>)
    ELSE LET x == IF a = <<>> THEN 0 ELSE a[1]
             y == IF b = <<>> THEN 0 ELSE b[1]
             s == x + y + carry
         IN  <<s % BigBase>> \o BigAddCarry(IF a = <<>> THEN a ELSE Tail(a),
                                            IF b = <<>> THEN b ELSE Tail(b),
                                            s \div BigBase)

BigAdd(a, b) == BigAddCarry(a, b, 0)

\* a - b for a >= b.
RECURSIVE BigSubBorrow(_, _, _)
BigSubBorrow(a, b, borrow) ==
    IF a = <<>> THEN <<>>
    ELSE LET y == IF b = <<>> THEN 0 ELSE b[1]
             d == a[1] - y - borrow
         IN  <<IF d < 0 THEN d + BigBase ELSE d>>
             \o BigSubBorrow(Tail(a), IF b = <<>> THEN b ELSE Tail(b), IF d < 0 THEN 1 ELSE 0)

BigSub(a, b) == BigTrim(BigSubBorrow(a, b, 0))

\* a * k for a small k (k <= 100000).
RECURSIVE BigMulSmallCarry(_, _, _)
BigMulSmallCarry(a, k, carry) ==
    IF a = <<>> THEN BigFromNat(carry)
    ELSE LET p == a[1] * k + carry
         IN  <<p % BigBase>> \o BigMulSmallCarry(Tail(a), k, p \div BigBase)

BigMulSmall(a, k) == BigTrim(BigMulSmallCarry(a, k, 0))

RECURSIVE BigMul(_, _)
BigMul(a, b) ==
    IF b = <<>> \/ a = <<>> THEN <<>>
    ELSE BigAdd(BigMulSmall(a, b[1]),
                LET rest == BigMul(a, Tail(b)) IN IF rest = <<>> THEN <<>> ELSE <<0>> \o rest)

\* floor(a / k) and a mod k for a small k (k <= 8192), from the highest digit down.
RECURSIVE BigDivSmallFrom(_, _, _, _)
BigDivSmallFrom(a, k, i, rem) ==
    IF i = 0 THEN <<>>
    ELSE LET cur == rem * BigBase + a[i]
         IN  BigDivSmallFrom(a, k, i - 1, cur % k) \o <<cur \div k>>

BigDivSmall(a, k) == BigTrim(BigDivSmallFrom(a, k, Len(a), 0))

RECURSIVE BigModSmallFrom(_, _, _, _)
BigModSmallFrom(a, k, i, rem) ==
    IF i = 0 THEN rem ELSE BigModSmallFrom(a, k, i - 1, (rem * BigBase + a[i]) % k)

BigModSmall(a, k) == BigModSmallFrom(a, k, Len(a), 0)

BigOdd(a) == a # <<>> /\ a[1] % 2 = 1

Pow2Small(k) == <<1, 2, 4, 8, 16, 32, 64, 128, 256, 512, 1024, 2048, 4096, 8192>>[k + 1]

\* x * 2^k
RECURSIVE BigShiftLeft(_, _)
BigShiftLeft(x, k) ==
    IF k <= 13 THEN BigMulSmall(x, Pow2Small(k))
    ELSE BigShiftLeft(BigMulSmall(x, 8192), k - 13)

\* floor(x / 2^k), and whether a bit was cut off (or sticky was set before).
RECURSIVE BigShiftRight(_, _, _)
BigShiftRight(x, k, sticky) ==
    IF k = 0 THEN [q |-> x, sticky |-> sticky]
    ELSE LET c == Min(k, 13)
         IN  BigShiftRight(BigDivSmall(x, Pow2Small(c)), k - c,
                           sticky \/ BigModSmall(x, Pow2Small(c)) # 0)

\* x / 2^k as the integer part q, the first bit cut off (guard) and whether
\* any bit below it was set (sticky).
BigShiftParts(x, k, sticky) ==
    IF k = 0 THEN [q |-> x, guard |-> FALSE, sticky |-> sticky]
    ELSE LET low == BigShiftRight(x, k - 1, sticky)
         IN  [q |-> BigDivSmall(low.q, 2), guard |-> BigOdd(low.q), sticky |-> low.sticky]

Two52 == BigShiftLeft(<<1>>, 52)
Two53 == BigShiftLeft(<<1>>, 53)
Two54 == BigShiftLeft(<<1>>, 54)
Two55 == BigShiftLeft(<<1>>, 55)

DoubleZero == [m |-> <<>>, e |-> 0]
DoubleOne == [m |-> Two52, e |-> 0 - 52]

\* The double nearest to x * 2^e (ties to even), where x has 53 bits left after
\* one of the `shifts` and sticky tells whether x itself was cut from a longer
\* number.
RoundToDouble(x, e, sticky, shifts) ==
    LET s == CHOOSE k \in shifts :
                 LET q == BigShiftRight(x, k, FALSE).q
                 IN  BigCmp(q, Two52) >= 0 /\ BigCmp(q, Two53) < 0
        parts == BigShiftParts(x, s, sticky)
    IN  IF parts.guard /\ (parts.sticky \/ BigOdd(parts.q))
        THEN LET up == BigAdd(parts.q, <<1>>)
             IN  IF up = Two53 THEN [m |-> Two52, e |-> e + s + 1] ELSE [m |-> up, e |-> e + s]
        ELSE [m |-> parts.q, e |-> e + s]

\* The digits of x above the lowest `digits` ones: floor(x / BigBase^digits).
BigShiftDown(x, digits) == SubSeq(x, Min(digits, Len(x)) + 1, Len(x))

BigLowZero(x, digits) == \A i \in 1..Min(digits, Len(x)) : x[i] = 0

\* parseFloat / $toDouble of the decimal n / BigBase^digits: the nearest double.
ParseFloat(n, digits) ==
    IF n = 0 THEN DoubleZero
    ELSE LET big == BigFromNat(n)
             bits == CHOOSE b \in 1..31 : (b = 31 \/ n < 2 ^ b) /\ n >= 2 ^ (b - 1)
             near == 54 + (133 * digits + 9) \div 10 - bits
             k == CHOOSE j \in (near - 2)..(near + 2) :
                      LET q == BigShiftDown(BigShiftLeft(big, j), digits)
                      IN  BigCmp(q, Two54) >= 0 /\ BigCmp(q, Two55) < 0
             x == BigShiftLeft(big, k)
         IN  RoundToDouble(BigShiftDown(x, digits), 0 - k, ~BigLowZero(x, digits), {2})

\* a * b
DoubleMul(a, b) ==
    IF a.m = <<>> \/ b.m = <<>> THEN DoubleZero
    ELSE RoundToDouble(BigMul(a.m, b.m), a.e + b.e, FALSE, {52, 53})

\* Long division, four bits a step, until the quotient q has 56 bits or more:
\* r is the remainder so far (r < d), n the number of steps taken.
RECURSIVE DivDigits(_, _, _, _)
DivDigits(r, d, q, n) ==
    IF BigCmp(q, Two55) >= 0 THEN [q |-> q, sticky |-> r # <<>>, bits |-> 4 * n]
    ELSE LET r16 == BigMulSmall(r, 16)
             t == CHOOSE j \in 0..15 :
                      /\ BigCmp(BigMulSmall(d, j), r16) <= 0
                      /\ BigCmp(BigMulSmall(d, j + 1), r16) > 0
         IN  DivDigits(BigSub(r16, BigMulSmall(d, t)), d,
                       BigAdd(BigMulSmall(q, 16), BigFromNat(t)), n + 1)

\* a / b for b # 0
DoubleDiv(a, b) ==
    IF a.m = <<>> THEN DoubleZero
    ELSE LET first == IF BigCmp(a.m, b.m) >= 0 THEN 1 ELSE 0
             div == DivDigits(IF first = 1 THEN BigSub(a.m, b.m) ELSE a.m, b.m,
                              BigFromNat(first), 0)
         IN  RoundToDouble(div.q, a.e - b.e - div.bits, div.sticky, {3, 4, 5, 6})

\* The integer nearest to d * 10000: up when the part cut off is a half or
\* more (halfEven: to the even neighbour when it is exactly a half).
TenThousandths(d, halfEven) ==
    IF d.m = <<>> THEN 0
    ELSE LET parts == BigShiftParts(BigMulSmall(d.m, 10000), 0 - d.e, FALSE)
         IN  BigToNat(IF parts.guard /\ (~halfEven \/ parts.sticky \/ BigOdd(parts.q))
                      THEN BigAdd(parts.q, <<1>>) ELSE parts.q)

\* Number.prototype.toFixed(4): "let n be an integer for which n / 10^4 - x is
\* as close to zero as possible; if there are two such n, pick the larger n".
ToFixed4(d) == TenThousandths(d, FALSE)

\* { $round: [x, 4] }: "when rounding on a value of 5, $round rounds to the
\* nearest even value".
MongoRound4(d) == TenThousandths(d, TRUE)

-----------------------------------------------------------------------------
(* The exchange rates and their cache *)

currencies == {"PHP", "IDR", "MYR", "USD"}
pegCurrency == "USD"

\* Rates stored with a peg rate of 0.9999.
InitialRatesOffPeg == [PHP |-> 1780000, IDR |-> 6350, MYR |-> 22470000, USD |-> 99990000]

\* The rates initializeExchangeRates stores: 0.0178, 0.0000635, 0.2247, 1.0000
InitialRates == [PHP |-> 1780000, IDR |-> 6350, MYR |-> 22470000, USD |-> 100000000]

\* this.exchangeRatesCache after clear() and set(rate.currency,
\* parseFloat(rate.toUSDRate.toString())) for each document found
Loaded(rates) == [c \in DOMAIN rates |-> ParseFloat(rates[c], 2)]

\* What an awaited refreshExchangeRateCache() leaves in the cache: the rates
\* found, or the cache as it was when find() failed and the error was logged.
Refreshed(rates, cache) == {Loaded(rates), cache}

\* if (this.exchangeRatesCache.size === 0) await this.refreshExchangeRateCache()
RefreshedIfEmpty(rates, cache) ==
    IF DOMAIN cache = {} THEN Refreshed(rates, cache) ELSE {cache}

\* What a call returns or throws
Value(v) == [value |-> <<v>>, message |-> <<>>]
Failure(message) == [value |-> <<>>, message |-> message]

\* A rate of PHP taken for missing as well.
NoRateOrPHP(cache, currency) ==
    currency \notin DOMAIN cache \/ cache[currency].m = <<>> \/ currency = "PHP"

\* !rate: the key is absent (undefined) or the rate is 0
NoRate(cache, currency) == currency \notin DOMAIN cache \/ cache[currency].m = <<>>

\* convertToUSD(price, fromCurrency), price in ten-thousandths
convertToUSD(cache, price, fromCurrency) ==
    IF fromCurrency = "USD" THEN Value(price)
    ELSE IF NoRate(cache, fromCurrency)
    THEN Failure(<<"Exchange rate not found for ", fromCurrency, " to USD">>)
    ELSE Value(ToFixed4(DoubleMul(ParseFloat(price, 1), cache[fromCurrency])))

\* The conversion from USD multiplying by the rate to USD.
convertFromUSDByRate(cache, usdPrice, toCurrency) ==
    IF toCurrency = "USD" THEN Value(usdPrice)
    ELSE IF NoRate(cache, toCurrency)
    THEN Failure(<<"Exchange rate not found for ", toCurrency>>)
    ELSE Value(ToFixed4(DoubleMul(ParseFloat(usdPrice, 1), cache[toCurrency])))

\* convertFromUSD(usdPrice, toCurrency), usdPrice in ten-thousandths
convertFromUSD(cache, usdPrice, toCurrency) ==
    IF toCurrency = "USD" THEN Value(usdPrice)
    ELSE IF NoRate(cache, toCurrency)
    THEN Failure(<<"Exchange rate not found for ", toCurrency>>)
    ELSE LET fromUSDRate == DoubleDiv(DoubleOne, cache[toCurrency])
         IN  Value(ToFixed4(DoubleMul(ParseFloat(usdPrice, 1), fromUSDRate)))

\* The latest MaxConversions entries of a log
Latest(log) ==
    IF Len(log) <= MaxConversions THEN log
    ELSE SubSeq(log, Len(log) - MaxConversions + 1, Len(log))

\* A conversion as the log keeps it: the call, the cache it read, whether a
\* refresh was awaiting its reply at the time, and the result
Conversion(op, amount, currency, cache, result) ==
    [op |-> op, amount |-> amount, currency |-> currency, cache |-> cache,
     during |-> loading # {}, value |-> result.value, message |-> result.message]

\* The amounts and currencies callers convert, "SGD" being a currency the
\* system has no rate for
LocalAmounts ==
    ({"PHP"} \X {52500, 10000000})
        \cup {<<"IDR", 1000000>>, <<"MYR", 25000>>, <<"USD", 52500>>, <<"SGD", 52500>>}

\* A caller converts a local amount to the peg currency.
ConvertToUSD ==
    /\ \E a \in LocalAmounts :
         conversions' = Latest(Append(conversions,
             Conversion("convertToUSD", a[2], a[1], exchangeRatesCache,
                        convertToUSD(exchangeRatesCache, a[2], a[1]))))
    /\ UNCHANGED <<running, collection, now, hist, exchangeRates, exchangeRatesCache,
                   listings, loading, command>>

\* The amounts callers convert back: what a conversion to the peg currency
\* returned, in its currency, or 17.8 in a currency with or without a rate.
PegAmounts ==
    { <<conversions[i].currency, conversions[i].value[1]>> :
      i \in { j \in DOMAIN conversions :
              conversions[j].op = "convertToUSD" /\ conversions[j].value # <<>> } }
        \cup ({"USD", "SGD"} \X {178000})

ConvertFromUSD ==
    /\ \E a \in PegAmounts :
         conversions' = Latest(Append(conversions,
             Conversion("convertFromUSD", a[2], a[1], exchangeRatesCache,
                        convertFromUSD(exchangeRatesCache, a[2], a[1]))))
    /\ UNCHANGED <<running, collection, now, hist, exchangeRates, exchangeRatesCache,
                   listings, loading, command>>

\* refreshExchangeRateCache() called on its own (the command line's init does
\* so at startup): find({}) is sent and awaited.  The reply holds the
\* documents of the collection, or the call fails.
RefreshFind ==
    /\ Cardinality(loading) < MaxRefreshes
    /\ \E ok \in BOOLEAN :
         loading' = loading \cup {[ok |-> ok, rates |-> IF ok THEN exchangeRates ELSE NoEntries]}
    /\ UNCHANGED <<running, collection, now, hist, exchangeRates, exchangeRatesCache,
                   listings, conversions, command>>

\* The refresh with clear() ahead of the awaited find(): a failure leaves the
\* cache empty.
RefreshDoneCleared ==
    /\ \E reply \in loading :
         /\ loading' = loading \ {reply}
         /\ exchangeRatesCache' = IF reply.ok THEN Loaded(reply.rates) ELSE NoEntries
    /\ UNCHANGED <<running, collection, now, hist, exchangeRates, listings, conversions, command>>

\* The reply arrives: clear() and the forEach of set() run with no await
\* between them; a failure goes to the catch block, which logs it.
RefreshDone ==
    /\ \E reply \in loading :
         /\ loading' = loading \ {reply}
         /\ exchangeRatesCache' = IF reply.ok THEN Loaded(reply.rates) ELSE exchangeRatesCache
    /\ UNCHANGED <<running, collection, now, hist, exchangeRates, listings, conversions, command>>

\* initializeExchangeRates(): deleteMany({}), insertMany(exchangeRates), and
\* the refresh of the cache.
InitializeExchangeRates ==
    /\ exchangeRates' = InitialRates
    /\ exchangeRatesCache' \in Refreshed(exchangeRates', exchangeRatesCache)
    /\ command' = <<>>
    /\ UNCHANGED <<running, collection, now, hist, listings, loading, conversions>>

\* The rates a fluctuation of at most 2% can lead to, among those followed:
\* newRate.toFixed(6), toFixed(8) for IDR.
RateChoices == [PHP |-> {1780000, 1800000}, IDR |-> {6350}, MYR |-> {22470000}]

Fluctuated(currency, rate) ==
    { r \in RateChoices[currency] :
        (IF r > rate THEN r - rate ELSE rate - r) * 50 <= rate }

\* updateExchangeRates(): every rate but that of USD changes by a random
\* -2% to +2%, then the cache is refreshed.
UpdateExchangeRates ==
    /\ exchangeRates' \in
         { rates \in [DOMAIN exchangeRates -> UNION { RateChoices[c] : c \in DOMAIN RateChoices }
                                                \cup {exchangeRates[c] : c \in DOMAIN exchangeRates}] :
             \A c \in DOMAIN exchangeRates :
                 IF c = "USD" THEN rates[c] = exchangeRates[c]
                 ELSE rates[c] \in Fluctuated(c, exchangeRates[c]) }
    /\ exchangeRatesCache' \in Refreshed(exchangeRates', exchangeRatesCache)
    /\ command' = <<>>
    /\ UNCHANGED <<running, collection, now, hist, listings, loading, conversions>>

\* clearAllData(): both collections are emptied and the cache is cleared.
ClearAllData ==
    /\ listings' = NoEntries
    /\ exchangeRates' = NoEntries
    /\ exchangeRatesCache' = NoEntries
    /\ command' = <<>>
    /\ UNCHANGED <<running, collection, now, hist, loading, conversions>>

\* The process ends and another starts: new PriceConversionSystem(), with
\* the database as it is.
Construct ==
    /\ exchangeRatesCache' = NoEntries
    /\ loading' = {}
    /\ conversions' = <<>>
    /\ command' = <<>>
    /\ running' = <<>>
    /\ UNCHANGED <<collection, now, hist, exchangeRates, listings>>

\* Callers that convert amounts while rates are set, changed and reloaded.
InitConvert ==
    /\ collection = {}
    /\ now = 0
    /\ hist = <<>>
    /\ Constructed

NextConvert ==
    \/ ConvertToUSD
    \/ ConvertFromUSD
    \/ RefreshFind
    \/ RefreshDone
    \/ InitializeExchangeRates
    \/ ClearAllData

SpecConvert == InitConvert /\ [][NextConvert]_vars

-----------------------------------------------------------------------------
(* The listings and their recalculation *)

\* A document of the listings collection; the prices are Decimal128 values
\* in ten-thousandths, convertedAt is conversionInfo.convertedAt.
Listing(currency, priceLocal, priceUSD, convertedAt) ==
    [currency |-> currency, priceLocal |-> priceLocal, priceUSD |-> priceUSD,
     convertedAt |-> convertedAt]

\* The prices generateListings draws, among those of faker.commerce.price:
\* 781.25 PHP, 25.00 USD
ListingPrices == {<<"PHP", 7812500>>, <<"USD", 250000>>}

\* What a check or a recalculation leaves in `command` until the next
\* command: its name, its arguments, and the value it returned or the error
\* it threw or logged
Ran(name, args, result) == <<[name |-> name, args |-> args, result |-> result]>>

\* generateListings(1): with an empty cache the rates are initialized first;
\* the listing is inserted unless the conversion throws.
GenerateListings ==
    /\ Cardinality(DOMAIN listings) < MaxListings
    /\ exchangeRates' = IF DOMAIN exchangeRatesCache = {} THEN InitialRates ELSE exchangeRates
    /\ exchangeRatesCache' \in
           IF DOMAIN exchangeRatesCache = {}
           THEN Refreshed(InitialRates, exchangeRatesCache) ELSE {exchangeRatesCache}
    /\ \E p \in ListingPrices :
         LET priceUSD == convertToUSD(exchangeRatesCache', p[2], p[1])
             id == Cardinality(DOMAIN listings) + 1
         IN  listings' =
                 IF priceUSD.value = <<>> THEN listings
                 ELSE [k \in DOMAIN listings \cup {id} |->
                          IF k = id THEN Listing(p[1], p[2], priceUSD.value[1], now)
                          ELSE listings[k]]
    /\ command' = <<>>
    /\ UNCHANGED <<running, collection, now, hist, loading, conversions>>

\* recalculateUSDPrices(): the listings are taken in _id order; USD listings
\* are skipped; the first conversion that throws ends the loop, and the error
\* is logged.
recalculateUSDPrices(docs, cache, dateNow) ==
    LET failing == { k \in DOMAIN docs :
                       docs[k].currency # "USD" /\ NoRate(cache, docs[k].currency) }
        reached == { k \in DOMAIN docs :
                       docs[k].currency # "USD" /\ \A f \in failing : k < f }
    IN  [listings |-> [k \in DOMAIN docs |->
                          IF k \in reached
                          THEN [docs[k] EXCEPT
                                  !.priceUSD = convertToUSD(cache, docs[k].priceLocal,
                                                            docs[k].currency).value[1],
                                  !.convertedAt = dateNow]
                          ELSE docs[k]],
         result |-> IF failing = {}
                    THEN Value(Cardinality(DOMAIN docs))
                    ELSE Failure(<<"USD price recalculation failed">>)]

RecalculateUSDPrices ==
    /\ LET done == recalculateUSDPrices(listings, exchangeRatesCache, now)
       IN  /\ listings' = done.listings
           /\ command' = Ran("recalculateUSDPrices", <<>>, done.result)
    /\ UNCHANGED <<running, collection, now, hist, exchangeRates, exchangeRatesCache,
                   loading, conversions>>

\* if (limit), limit ? a : b
Truthy(limit) == limit # None /\ limit[1] # 0

\* countDocuments(matchStage): { currency: { $ne: 'USD' } }, and
\* 'conversionInfo.convertedAt': { $lt: updateSinceDate } when a date is given
Matching(docs, updateSinceDate) ==
    { k \in DOMAIN docs :
        /\ docs[k].currency # "USD"
        /\ updateSinceDate # None => docs[k].convertedAt < updateSinceDate[1] }

\* limit ? Math.min(limit, totalAvailable) : totalAvailable
RecordsToProcess(limit, totalAvailable) ==
    IF Truthy(limit) THEN Min(limit[1], totalAvailable) ELSE totalAvailable

\* switchBranches: one branch for each cached currency but USD.  The store
\* rejects a $switch without branches.
SwitchBranches(cache) == DOMAIN cache \ {"USD"}

\* $switch over the cached rates, default: 1
SwitchRate(cache, currency) ==
    IF currency \in SwitchBranches(cache) THEN cache[currency] ELSE DoubleOne

\* $toDecimal: { $round: [{ $multiply: [{ $toDouble: '$priceLocal' }, rate] }, 4] }
NewPriceUSD(cache, doc) ==
    MongoRound4(DoubleMul(ParseFloat(doc.priceLocal, 1), SwitchRate(cache, doc.currency)))

\* The documents the pipeline merges into the collection: those matching, any
\* `limit` of them when a limit is given ($limit follows $match with no $sort).
Selections(docs, updateSinceDate, limit) ==
    LET matched == Matching(docs, updateSinceDate)
    IN  IF Truthy(limit)
        THEN { S \in SUBSET matched : Cardinality(S) = Min(limit[1], Cardinality(matched)) }
        ELSE {matched}

Metrics(totalAvailable, recordsToProcess, updatedRecords) ==
    Value([totalAvailable |-> totalAvailable, recordsToProcess |-> recordsToProcess,
           updatedRecords |-> updatedRecords])

\* recalculateUSDPricesAggregation(updateSinceDate, limit) with the cache it
\* has after the refresh of an empty cache: the listings it leaves and what
\* it returns or throws.
recalculateUSDPricesAggregation(docs, cache, updateSinceDate, limit, dateNow) ==
    LET totalAvailable == Cardinality(Matching(docs, updateSinceDate))
        recordsToProcess == RecordsToProcess(limit, totalAvailable)
    IN  IF recordsToProcess = 0
        THEN { [listings |-> docs, result |-> Metrics(totalAvailable, 0, 0)] }
        ELSE IF Truthy(limit) /\ limit[1] < 0
        THEN { [listings |-> docs, result |-> Failure(<<"the limit must be positive">>)] }
        ELSE IF SwitchBranches(cache) = {}
        THEN { [listings |-> docs,
                result |-> Failure(<<"$switch requires at least one branch">>)] }
        ELSE { [listings |-> [k \in DOMAIN docs |->
                                 IF k \in S
                                 THEN [docs[k] EXCEPT !.priceUSD = NewPriceUSD(cache, docs[k]),
                                                      !.convertedAt = dateNow]
                                 ELSE docs[k]],
                result |-> Metrics(totalAvailable, recordsToProcess, recordsToProcess)] :
               S \in Selections(docs, updateSinceDate, limit) }

\* The dates and limits callers pass: no date or the present instant, no
\* limit or a number.
Dates == {None, Some(now)}
Limits == {None, Some(0), Some(1)}

RecalculateUSDPricesAggregation ==
    /\ \E updateSinceDate \in Dates, limit \in Limits :
         /\ exchangeRatesCache' \in RefreshedIfEmpty(exchangeRates, exchangeRatesCache)
         /\ \E done \in recalculateUSDPricesAggregation(listings, exchangeRatesCache',
                                                        updateSinceDate, limit, now) :
              /\ listings' = done.listings
              /\ command' = Ran("recalculateUSDPricesAggregation",
                                <<updateSinceDate, limit>>, done.result)
    /\ UNCHANGED <<running, collection, now, hist, exchangeRates, loading, conversions>>

\* What checkRecordsToUpdate(updateSinceDate, limit) reports, with the cache
\* it has after the refresh of an empty cache
checkRecordsToUpdate(docs, cache, updateSinceDate, limit) ==
    LET matched == Matching(docs, updateSinceDate)
    IN  Value([totalAvailable |-> Cardinality(matched),
               recordsToProcess |-> RecordsToProcess(limit, Cardinality(matched)),
               missingExchangeRates |->
                   { docs[k].currency : k \in matched } \ DOMAIN cache])

CheckRecordsToUpdate ==
    /\ \E updateSinceDate \in Dates, limit \in Limits :
         /\ exchangeRatesCache' \in RefreshedIfEmpty(exchangeRates, exchangeRatesCache)
         /\ command' = Ran("checkRecordsToUpdate", <<updateSinceDate, limit>>,
                           checkRecordsToUpdate(listings, exchangeRatesCache',
                                                updateSinceDate, limit))
    /\ UNCHANGED <<running, collection, now, hist, exchangeRates, listings, loading, conversions>>

\* checkRecordsToUpdateDetailed(updateSinceDate, limit): the basic report,
\* then a find() of sample records that are printed.
CheckRecordsToUpdateDetailed ==
    /\ \E updateSinceDate \in Dates, limit \in Limits :
         /\ exchangeRatesCache' \in RefreshedIfEmpty(exchangeRates, exchangeRatesCache)
         /\ command' = Ran("checkRecordsToUpdateDetailed", <<updateSinceDate, limit>>,
                           checkRecordsToUpdate(listings, exchangeRatesCache',
                                                updateSinceDate, limit))
    /\ UNCHANGED <<running, collection, now, hist, exchangeRates, listings, loading, conversions>>

\* Time passes.
Elapse ==
    /\ now < MaxTime
    /\ now' = now + 1
    /\ command' = <<>>
    /\ UNCHANGED <<running, collection, hist, exchangeRates, exchangeRatesCache, listings,
                   loading, conversions>>

\* Operators that generate listings, change the rates and recalculate, one
\* command after the other.
InitRecalc ==
    /\ collection = {}
    /\ now = 0
    /\ hist = <<>>
    /\ Constructed

NextRecalc ==
    \/ InitializeExchangeRates
    \/ UpdateExchangeRates
    \/ GenerateListings
    \/ RecalculateUSDPrices
    \/ RecalculateUSDPricesAggregation
    \/ CheckRecordsToUpdate
    \/ CheckRecordsToUpdateDetailed
    \/ ClearAllData
    \/ Construct
    \/ Elapse

SpecRecalc == InitRecalc /\ [][NextRecalc]_vars

-----------------------------------------------------------------------------
(* A recalculation pass among other clients of the listings collection *)

\* What a pass holds between two awaits: the documents it read and the _ids
\* it has not written yet.
Pass(name, read, todo, dateNow) ==
    <<[name |-> name, read |-> read, todo |-> todo, startedAt |-> dateNow]>>

\* const listings = await this.listingsCollection.find({}).toArray()
FindListings ==
    /\ running = <<>>
    /\ running' = Pass("recalculateUSDPrices", listings,
                       { k \in DOMAIN listings : listings[k].currency # "USD" }, now)
    /\ command' = <<>>
    /\ UNCHANGED <<collection, now, hist, exchangeRates, exchangeRatesCache, listings,
                   loading, conversions>>

\* A write-back that converts the price the store holds now.
SetPriceOfStored(stored, read, priceUSD, dateNow) ==
    [stored EXCEPT !.priceUSD = convertToUSD(exchangeRatesCache, stored.priceLocal,
                                             stored.currency).value[1],
                   !.convertedAt = dateNow]

\* updateOne({ _id }, { $set: { priceUSD, 'conversionInfo.convertedAt' } }):
\* the other fields of the stored document stay.
SetPrice(stored, read, priceUSD, dateNow) ==
    [stored EXCEPT !.priceUSD = priceUSD, !.convertedAt = dateNow]

\* One turn of the loop for the next listing read: the conversion of the
\* price that was read, and the updateOne that is awaited.  A conversion
\* that throws ends the pass in the catch.
UpdateOneListing ==
    /\ running # <<>> /\ running[1].name = "recalculateUSDPrices"
    /\ running[1].todo # {}
    /\ LET k == CHOOSE j \in running[1].todo : \A m \in running[1].todo : j <= m
           read == running[1].read[k]
           newUSDPrice == convertToUSD(exchangeRatesCache, read.priceLocal, read.currency)
       IN  IF newUSDPrice.value = <<>>
           THEN /\ running' = <<>>
                /\ command' = Ran("recalculateUSDPrices", <<>>,
                                  Failure(<<"USD price recalculation failed">>))
                /\ UNCHANGED listings
           ELSE /\ running' = <<[running[1] EXCEPT !.todo = @ \ {k}]>>
                /\ listings' = IF k \in DOMAIN listings
                               THEN [listings EXCEPT
                                       ![k] = SetPrice(@, read, newUSDPrice.value[1], now)]
                               ELSE listings
                /\ UNCHANGED command
    /\ UNCHANGED <<collection, now, hist, exchangeRates, exchangeRatesCache,
                   loading, conversions>>

\* The loop is over: the count of the listings read is logged.
RecalculatedUSDPrices ==
    /\ running # <<>> /\ running[1].name = "recalculateUSDPrices"
    /\ running[1].todo = {}
    /\ running' = <<>>
    /\ command' = Ran("recalculateUSDPrices", <<>>,
                      Value(Cardinality(DOMAIN running[1].read)))
    /\ UNCHANGED <<collection, now, hist, exchangeRates, exchangeRatesCache, listings,
                   loading, conversions>>

\* aggregate(pipeline) of recalculateUSDPricesAggregation without date and
\* limit: the cursor of $match reads the documents.
AggregateListings ==
    /\ running = <<>>
    /\ SwitchBranches(exchangeRatesCache) # {}
    /\ running' = Pass("recalculateUSDPricesAggregation", listings,
                       Matching(listings, None), now)
    /\ command' = <<>>
    /\ UNCHANGED <<collection, now, hist, exchangeRates, exchangeRatesCache, listings,
                   loading, conversions>>

\* $merge { whenMatched: 'replace' } writes one document of the pipeline: the
\* document as it was read, with its new priceUSD and conversion date, takes
\* the place of the stored one (and is inserted when none is stored).
MergeListing ==
    /\ running # <<>> /\ running[1].name = "recalculateUSDPricesAggregation"
    /\ \E k \in running[1].todo :
          LET read == running[1].read[k]
              merged == [read EXCEPT !.priceUSD = NewPriceUSD(exchangeRatesCache, read),
                                     !.convertedAt = running[1].startedAt]
          IN  /\ listings' = [j \in DOMAIN listings \cup {k} |->
                                IF j = k THEN merged ELSE listings[j]]
              /\ running' = <<[running[1] EXCEPT !.todo = @ \ {k}]>>
    /\ UNCHANGED <<collection, now, hist, exchangeRates, exchangeRatesCache,
                   loading, conversions, command>>

\* The aggregation returns: the metrics of the run.
AggregatedListings ==
    /\ running # <<>> /\ running[1].name = "recalculateUSDPricesAggregation"
    /\ running[1].todo = {}
    /\ running' = <<>>
    /\ LET total == Cardinality(Matching(running[1].read, None))
       IN  command' = Ran("recalculateUSDPricesAggregation", <<None, None>>,
                          Metrics(total, total, total))
    /\ UNCHANGED <<collection, now, hist, exchangeRates, exchangeRatesCache, listings,
                   loading, conversions>>

\* The prices another client gives to a listing, in ten-thousandths.
ClientPrices == {7812500, 10000000}

\* Another client of the listings collection changes the price of a listing
\* and converts it with the rates in force.
ClientUpdatesPrice ==
    /\ \E k \in DOMAIN listings : \E p \in ClientPrices :
          LET priceUSD == convertToUSD(exchangeRatesCache, p, listings[k].currency)
          IN  /\ p # listings[k].priceLocal
              /\ priceUSD.value # <<>>
              /\ listings' = [listings EXCEPT ![k].priceLocal = p,
                                              ![k].priceUSD = priceUSD.value[1]]
    /\ command' = <<>>
    /\ UNCHANGED <<running, collection, now, hist, exchangeRates, exchangeRatesCache,
                   loading, conversions>>

InitPass ==
    /\ collection = {}
    /\ now = 0
    /\ hist = <<>>
    /\ Constructed

NextPass ==
    \/ GenerateListings
    \/ ClientUpdatesPrice
    \/ FindListings
    \/ UpdateOneListing
    \/ RecalculatedUSDPrices
    \/ AggregateListings
    \/ MergeListing
    \/ AggregatedListings
    \/ Elapse

SpecPass == InitPass /\ [][NextPass]_vars

-----------------------------------------------------------------------------
(* The update-rates command *)

\* What a command of the CLI leaves: the methods of the price system its
\* case called, in order, and what the last one returned or logged.
Called(methods, result) ==
    [calls |-> methods, value |-> result.value, message |-> result.message]

\* node price-conversion.js update-rates: init() loads the cache of the new
\* process; the call of updateExchangeRates() is commented out, and
\* recalculateUSDPrices() runs with the rates as they are stored.
UpdateRates ==
    /\ exchangeRatesCache' \in Refreshed(exchangeRates, NoEntries)
    /\ LET done == recalculateUSDPrices(listings, exchangeRatesCache', now)
       IN  /\ listings' = done.listings
           /\ command' = Ran("update-rates", <<>>,
                             Called(<<"recalculateUSDPrices">>, done.result))
    /\ UNCHANGED <<running, collection, now, hist, exchangeRates, loading, conversions>>

\* An operator at the command line: setup, generate, update-rates,
\* recalculate, clear.
InitCli ==
    /\ collection = {}
    /\ now = 0
    /\ hist = <<>>
    /\ Constructed

NextCli ==
    \/ InitializeExchangeRates
    \/ GenerateListings
    \/ UpdateRates
    \/ RecalculateUSDPricesAggregation
    \/ ClearAllData
    \/ Elapse

SpecCli == InitCli /\ [][NextCli]_vars

-----------------------------------------------------------------------------
(* Listings in a currency without a rate *)

\* Another client of the listings collection inserts a listing priced in a
\* currency the rate table does not hold: 5.25 SGD, with the peg price that
\* client gives it.
ClientInsertsListing ==
    /\ Cardinality(DOMAIN listings) < MaxListings
    /\ LET id == Cardinality(DOMAIN listings) + 1
       IN  listings' = [k \in DOMAIN listings \cup {id} |->
                           IF k = id THEN Listing("SGD", 52500, 39000, now)
                           ELSE listings[k]]
    /\ command' = <<>>
    /\ UNCHANGED <<running, collection, now, hist, exchangeRates, exchangeRatesCache,
                   loading, conversions>>

\* Checks and recalculations over listings some of which have no rate.
InitMissing ==
    /\ collection = {}
    /\ now = 0
    /\ hist = <<>>
    /\ Constructed

NextMissing ==
    \/ InitializeExchangeRates
    \/ GenerateListings
    \/ ClientInsertsListing
    \/ CheckRecordsToUpdate
    \/ RecalculateUSDPricesAggregation
    \/ Elapse

SpecMissing == InitMissing /\ [][NextMissing]_vars

-----------------------------------------------------------------------------
(* Recalculation in batches *)

\* The limits of a batch job.
BatchLimits == {Some(1)}

\* Where an operator stands who runs `recalculate <date> <limit>` again and
\* again: the arguments, the listings as they were before the first run and
\* those of them that were available to it, and the number of runs that
\* returned.
Batches(args, before, available, startedAt, runs) ==
    <<[name |-> "batches", args |-> args, before |-> before, available |-> available,
       startedAt |-> startedAt, runs |-> runs]>>

\* One run of the job: recalculateUSDPricesAggregation(updateSinceDate, limit)
\* with the arguments of the first run.
RecalculateBatch ==
    /\ \E updateSinceDate \in Dates, limit \in BatchLimits :
         /\ running # <<>> => /\ running[1].name = "batches"
                              /\ running[1].args = <<updateSinceDate, limit>>
                              /\ running[1].runs < MaxRuns
         /\ exchangeRatesCache' \in RefreshedIfEmpty(exchangeRates, exchangeRatesCache)
         /\ \E done \in recalculateUSDPricesAggregation(listings, exchangeRatesCache',
                                                        updateSinceDate, limit, now) :
              /\ listings' = done.listings
              /\ command' = Ran("recalculateUSDPricesAggregation",
                                <<updateSinceDate, limit>>, done.result)
              /\ running' =
                    IF done.result.value = <<>> THEN running
                    ELSE IF running = <<>>
                    THEN Batches(<<updateSinceDate, limit>>, listings,
                                 Matching(listings, updateSinceDate), now, 1)
                    ELSE <<[running[1] EXCEPT !.runs = @ + 1]>>
    /\ UNCHANGED <<collection, now, hist, exchangeRates, loading, conversions>>

\* The operator is done with the job.
EndBatches ==
    /\ running # <<>> /\ running[1].name = "batches"
    /\ running' = <<>>
    /\ command' = <<>>
    /\ UNCHANGED <<collection, now, hist, exchangeRates, exchangeRatesCache, listings,
                   loading, conversions>>

InitBatch ==
    /\ collection = {}
    /\ now = 0
    /\ hist = <<>>
    /\ Constructed

NextBatch ==
    \/ GenerateListings
    \/ RecalculateBatch
    \/ EndBatches
    \/ Elapse

SpecBatch == InitBatch /\ [][NextBatch]_vars

-----------------------------------------------------------------------------
(* Vocabulary of the properties *)

Returns(e) == e.err = "none"

\* The listings of the category a call asked for.
Listed(e) == Match(collection, e.req.gameCategory)

CountOf(seq, sellerId) == Cardinality({ k \in DOMAIN seq : seq[k].sellerId = sellerId })

SellerSize(e, sellerId) == Cardinality({ d \in Listed(e) : d.sellerId = sellerId })

\* a comes before b under (rating descending, createdAt descending).
Better(a, b) ==
    \/ a.rating > b.rating
    \/ a.rating = b.rating /\ a.createdAt > b.createdAt

\* The page size a call works with.
PageSize(e) == e.pagination.limit

SkipOf(e) == (e.req.page - 1) * PageSize(e)

\* seq lists every element of S exactly once.
ListsOnce(seq, S) ==
    /\ Len(seq) = Cardinality(S)
    /\ \A d \in S : \E k \in DOMAIN seq : seq[k] = d

(***************************************************************************)
(* C1: Hash Round-Robin is deterministic: on an unchanged collection two   *)
(* calls with the same (category, seed, page, pageSize) return the same    *)
(* ordered sequence of listings, whatever the data, ties included.         *)
(***************************************************************************)
C1_HashDeterministic ==
    \A i \in DOMAIN hist : \A j \in DOMAIN hist :
        ( /\ hist[i].req.method = "hash" /\ hist[j].req.method = "hash"
          /\ Returns(hist[i]) /\ Returns(hist[j])
          /\ hist[i].req.gameCategory = hist[j].req.gameCategory
          /\ hist[i].seed = hist[j].seed
          /\ hist[i].req.page = hist[j].req.page
          /\ PageSize(hist[i]) = PageSize(hist[j]) )
        => hist[i].offers = hist[j].offers

(***************************************************************************)
(* C2: under one seed the Hash Round-Robin pages 1..totalPages, requested  *)
(* in separate calls and concatenated, hold every listing of the category  *)
(* exactly once.                                                           *)
(***************************************************************************)
C2_HashPagesCoverOnce ==
    ( /\ hist # <<>>
      /\ \A i \in DOMAIN hist :
            /\ hist[i].req.method = "hash"
            /\ Returns(hist[i])
            /\ hist[i].req.page = i
            /\ hist[i].seed = hist[1].seed
            /\ PageSize(hist[i]) = PageSize(hist[1])
      /\ Len(hist) = hist[1].pagination.totalPages )
    => ListsOnce(Flatten([i \in DOMAIN hist |-> hist[i].offers]), Listed(hist[1]))

(***************************************************************************)
(* C3: the seed a seed-based strategy uses and reports is the explicit     *)
(* seed whenever one is given, 0 included, and floor(now / 60000)          *)
(* otherwise.                                                              *)
(***************************************************************************)
C3_SeedClock ==
    \A i \in DOMAIN hist :
        (Returns(hist[i]) /\ hist[i].req.method \in SeedBased)
        => hist[i].seed = IF hist[i].req.randomSeed # None
                          THEN hist[i].req.randomSeed
                          ELSE Some(hist[i].at \div 60000)

(***************************************************************************)
(* C4: True Round-Robin, round 0: with S sellers in the category the first *)
(* S elements of the interleaved sequence hold exactly one listing of each *)
(* seller, a best one of that seller, and their order depends on the       *)
(* seed-derived seller keys alone: it is the same on every call with the   *)
(* same seed.                                                              *)
(***************************************************************************)
RoundZeroSellers(e) ==
    [k \in 1..Cardinality(SellersOf(Listed(e))) |-> e.full[k].sellerId]

C4_RoundZero ==
    /\ \A i \in DOMAIN hist :
          (hist[i].req.method = "true" /\ Returns(hist[i]))
          => LET e == hist[i]
                 S == Cardinality(SellersOf(Listed(e)))
             IN  /\ Len(e.full) >= S
                 /\ \A s \in SellersOf(Listed(e)) :
                       Cardinality({ k \in 1..S : e.full[k].sellerId = s }) = 1
                 /\ \A k \in 1..S : \A d \in Listed(e) :
                       d.sellerId = e.full[k].sellerId => ~Better(d, e.full[k])
    /\ \A i \in DOMAIN hist : \A j \in DOMAIN hist :
          ( /\ hist[i].req.method = "true" /\ hist[j].req.method = "true"
            /\ Returns(hist[i]) /\ Returns(hist[j])
            /\ hist[i].seed = hist[j].seed )
          => RoundZeroSellers(hist[i]) = RoundZeroSellers(hist[j])

(***************************************************************************)
(* C5: True Round-Robin fairness: in the interleaved sequence a seller's   *)
(* listings come in (rating, createdAt) descending order, every seller's   *)
(* N-th listing comes before any seller's (N+1)-th, and in every prefix    *)
(* the counts of two sellers that both have listings left differ by at     *)
(* most 1.                                                                 *)
(***************************************************************************)
\* The round of position k: which of its seller's listings stands there.
RoundAt(seq, k) == Cardinality({ m \in 1..k : seq[m].sellerId = seq[k].sellerId })

C5_TrueRoundRobinFair ==
    \A i \in DOMAIN hist :
        (hist[i].req.method = "true" /\ Returns(hist[i]))
        => LET e == hist[i]
               seq == e.full
           IN  /\ \A k \in DOMAIN seq : \A m \in DOMAIN seq :
                     (k < m /\ seq[k].sellerId = seq[m].sellerId) => ~Better(seq[m], seq[k])
               /\ \A k \in DOMAIN seq : \A m \in DOMAIN seq :
                     k < m => RoundAt(seq, k) <= RoundAt(seq, m)
               /\ \A n \in 0..Len(seq) : \A a \in SellersOf(Listed(e)) : \A b \in SellersOf(Listed(e)) :
                     LET prefix == SubSeq(seq, 1, n)
                     IN  ( /\ CountOf(prefix, a) < SellerSize(e, a)
                           /\ CountOf(prefix, b) < SellerSize(e, b) )
                         => CountOf(prefix, a) - CountOf(prefix, b) <= 1

\* A returned interleaving of a seller with two listings or more and another seller.
C5_Witness ==
    \E i \in DOMAIN hist :
        /\ hist[i].req.method = "true" /\ Returns(hist[i])
        /\ Len(hist[i].full) = MaxOffers
        /\ \E a \in SellersOf(Listed(hist[i])) : \E b \in SellersOf(Listed(hist[i])) :
              a # b /\ SellerSize(hist[i], a) >= 2

(***************************************************************************)
(* C6: Quota-Based: the effective maxPerSeller is the requested quota      *)
(* capped at the configured maximum (10), the default (2) when none is     *)
(* given, and no seller has more than that many listings in the flattened  *)
(* sequence before pagination, hence on any page.                          *)
(***************************************************************************)
C6_QuotaCap ==
    \A i \in DOMAIN hist :
        ( /\ hist[i].req.method = "quota" /\ Returns(hist[i])
          /\ (hist[i].req.maxPerSeller = None \/ hist[i].req.maxPerSeller[1] >= 1) )
        => LET e == hist[i]
               effective == IF e.req.maxPerSeller = None THEN 2
                            ELSE Min(e.req.maxPerSeller[1], 10)
           IN  /\ e.maxPerSeller = Some(effective)
               /\ \A s \in SellerIds :
                     /\ CountOf(e.full, s) <= effective
                     /\ CountOf(e.offers, s) <= effective

\* A seller with more listings than the quota, cut to the quota.
C6_Witness ==
    \E i \in DOMAIN hist : \E s \in SellerIds :
        /\ hist[i].req.method = "quota" /\ Returns(hist[i])
        /\ hist[i].maxPerSeller = Some(2)
        /\ SellerSize(hist[i], s) > 2
        /\ CountOf(hist[i].full, s) = 2

(***************************************************************************)
(* C7: the pagination block of each strategy: total is the number of all   *)
(* listings of the category, totalPages = ceil(total / pageSize),          *)
(* hasNextPage = (page * pageSize < total), hasPrevPage = (page > 1).      *)
(***************************************************************************)
C7_PaginationBlock ==
    \A i \in DOMAIN hist :
        Returns(hist[i])
        => LET e == hist[i]
               pg == e.pagination
               total == Cardinality(Listed(e))
           IN  /\ pg.page = e.req.page
               /\ pg.limit = IF e.req.limit = None THEN 10 ELSE e.req.limit[1]
               /\ pg.total = total
               /\ pg.totalPages * pg.limit >= total
               /\ (pg.totalPages - 1) * pg.limit < total
               /\ pg.hasNextPage = (pg.page * pg.limit < total)
               /\ pg.hasPrevPage = (pg.page > 1)

\* A quota page that is cut by the quota and still reports the whole category.
C7_Witness ==
    \E i \in DOMAIN hist :
        /\ hist[i].req.method = "quota" /\ Returns(hist[i])
        /\ Len(hist[i].full) < hist[i].pagination.total
        /\ hist[i].pagination.totalPages = 2
        /\ hist[i].pagination.hasNextPage

(***************************************************************************)
(* C8: the pager: for page >= 1 and pageSize >= 1 the returned page is the *)
(* elements [skip, skip + pageSize) of the ordered sequence, with          *)
(* skip = (page - 1) * pageSize, cut at the end of the sequence: at most   *)
(* pageSize listings, none and no error past the end; a Hash Round-Robin   *)
(* page has min(pageSize, max(0, total - skip)) listings.                  *)
(***************************************************************************)
C8_PagerSlice ==
    \A i \in DOMAIN hist :
        LET e == hist[i]
        IN  (e.req.page >= 1 /\ (e.req.limit = None \/ e.req.limit[1] >= 1))
            => /\ e.err # "InvalidPipeline"
               /\ Returns(e)
                  => /\ Len(e.offers) = Max(0, Min(PageSize(e), Len(e.full) - SkipOf(e)))
                     /\ \A k \in DOMAIN e.offers : e.offers[k] = e.full[SkipOf(e) + k]
                     /\ Len(e.offers) <= PageSize(e)
                     /\ (SkipOf(e) >= Len(e.full) => e.offers = <<>>)
                     /\ e.req.method = "hash"
                        => Len(e.offers) =
                             Min(PageSize(e), Max(0, e.pagination.total - SkipOf(e)))

\* A full first page, then a page past the end of a category that has listings.
C8_Witness ==
    /\ Len(hist) = 2
    /\ Returns(hist[1]) /\ Returns(hist[2])
    /\ hist[1].req.method = "hash"
    /\ hist[1].req.page = 1 /\ PageSize(hist[1]) = 2 /\ Len(hist[1].offers) = 2
    /\ hist[2].req.page = 2 /\ hist[2].full # <<>> /\ hist[2].offers = <<>>

(***************************************************************************)
(* C9: a request for a category without listings returns, without error,   *)
(* no listings, total 0, totalPages 0 and hasNextPage false, for each      *)
(* strategy.                                                               *)
(***************************************************************************)
C9_EmptyCategory ==
    \A i \in DOMAIN hist :
        Listed(hist[i]) = {}
        => /\ Returns(hist[i])
           /\ hist[i].offers = <<>>
           /\ hist[i].pagination.total = 0
           /\ hist[i].pagination.totalPages = 0
           /\ hist[i].pagination.hasNextPage = FALSE

\* True Round-Robin and then its second page answered on a category without listings.
C9_Witness ==
    /\ Len(hist) = 2
    /\ Listed(hist[1]) = {}
    /\ hist[1].req.method = "true" /\ Returns(hist[1])
    /\ hist[2].req.page = 2 /\ Returns(hist[2])

(***************************************************************************)
(* C10: a search whose page is below 1, whose pageSize is outside          *)
(* 1..maxPageSize (100) or whose strategy name is unknown is rejected with *)
(* an error before any query reaches the store; a negative page never      *)
(* yields listings.                                                        *)
(***************************************************************************)
\* What the caller supplied: the argument of the method, or the text on the
\* command line (None when there is none, or no number in it).
Supplied(e, arg, value) ==
    IF e.req.cli = None THEN value
    ELSE IF e.req.cli[1][arg] = None THEN None
    ELSE ParseInt(e.req.cli[1][arg][1])

InvalidRequest(e) ==
    LET page == Supplied(e, 2, Some(e.req.page))
        pageSize == Supplied(e, 3, e.req.limit)
    IN  \/ page # None /\ page[1] < 1
        \/ pageSize # None /\ (pageSize[1] < 1 \/ pageSize[1] > maxPageSize)
        \/ e.err = "UnknownMethod"

C10_InvalidRequestRejected ==
    \A i \in DOMAIN hist :
        InvalidRequest(hist[i])
        => /\ ~Returns(hist[i])
           /\ hist[i].queries = 0
           /\ hist[i].offers = <<>>

(***************************************************************************)
(* C11: no silent defaults: when a search is given an invalid number (page *)
(* below 1, pageSize below 1, maxPerSeller below 1) and is not rejected,   *)
(* the value the result works with and reports is the value the caller     *)
(* supplied, never a default (page 1, page size 10, quota 2).              *)
(***************************************************************************)
C11_NoSilentDefaults ==
    \A i \in DOMAIN hist :
        LET e == hist[i]
            page == Supplied(e, 2, Some(e.req.page))
            pageSize == Supplied(e, 3, e.req.limit)
            quota == Supplied(e, 4, e.req.maxPerSeller)
        IN  Returns(e)
            => /\ (page # None /\ page[1] < 1) => e.pagination.page = page[1]
               /\ (pageSize # None /\ pageSize[1] < 1) => e.pagination.limit = pageSize[1]
               /\ (e.req.method = "quota" /\ quota # None /\ quota[1] < 1)
                  => e.maxPerSeller = quota

(***************************************************************************)
(* C12: Weighted Random is not pagination-stable.  Every call draws its    *)
(* own random scores: whenever a call returned a non-empty page of a       *)
(* category with two listings or more, the same call on the same data can  *)
(* also return another sequence; and after a full page 1 of a category     *)
(* that goes on, a call for page 2 can return a listing of that page 1     *)
(* again while some listing is on neither page.  The listings of one call  *)
(* are distinct and at most pageSize many.  (What a call can also return   *)
(* is asked when the call has just been answered.)                         *)
(***************************************************************************)
Elements(seq) == { seq[k] : k \in DOMAIN seq }

C12_WeightedNotStable ==
    \A i \in DOMAIN hist :
        (hist[i].req.method = "weighted" /\ Returns(hist[i]))
        => LET e == hist[i]
           IN  /\ Len(e.offers) <= PageSize(e)
               /\ Cardinality(Elements(e.offers)) = Len(e.offers)
               /\ (i = Len(hist) /\ Cardinality(Listed(e)) >= 2 /\ e.offers # <<>>)
                  => \E rand \in [Listed(e) -> RandDraws] :
                         \E r \in WeightedRandomDraw(collection, e.req, e.at, rand) :
                            r.offers # e.offers
               /\ (i = Len(hist) /\ e.req.page = 1 /\ Cardinality(Listed(e)) > PageSize(e))
                  => \E rand \in [Listed(e) -> RandDraws] :
                         \E r \in WeightedRandomDraw(collection, [e.req EXCEPT !.page = 2], e.at, rand) :
                         /\ Elements(r.offers) \cap Elements(e.offers) # {}
                         /\ Listed(e) \ (Elements(r.offers) \cup Elements(e.offers)) # {}

\* Page 1 and then page 2 of a category, with a listing of page 1 again on page 2.
C12_Witness ==
    /\ Len(hist) = 2
    /\ hist[1].req.method = "weighted" /\ Returns(hist[1]) /\ Returns(hist[2])
    /\ hist[1].req.page = 1 /\ hist[2].req.page = 2
    /\ Elements(hist[1].offers) \cap Elements(hist[2].offers) # {}
    /\ Listed(hist[1]) \ (Elements(hist[1].offers) \cup Elements(hist[2].offers)) # {}

(***************************************************************************)
(* C13: convertToUSD returns the amount unchanged for USD, loaded cache or *)
(* not, and otherwise amount * cache[currency] rounded to 4 fractional     *)
(* digits in exact decimal arithmetic: the exact product of the two        *)
(* decimals, rounded to the nearest ten-thousandth, a product half-way     *)
(* between two of them going by one rule (up, to even, or down) in every   *)
(* conversion.                                                             *)
(***************************************************************************)
TieRules == {"up", "even", "down"}

\* The rates the rate table can hold
KnownRates ==
    { InitialRates[c] : c \in DOMAIN InitialRates }
        \cup UNION { RateChoices[c] : c \in DOMAIN RateChoices }

\* The double nearest to each of them
NearestDouble == [r \in KnownRates |-> ParseFloat(r, 2)]

\* The decimal a cached rate was read from
DecimalOf(rate) == CHOOSE r \in KnownRates : NearestDouble[r] = rate

\* amount (ten-thousandths) times rate (hundred-millionths), exactly, rounded
\* to ten-thousandths
DecimalProduct(amount, rate, tie) ==
    LET product == BigMul(BigFromNat(amount), BigFromNat(rate))
        whole == BigShiftDown(product, 2)
        rest == BigToNat(SubSeq(product, 1, Min(2, Len(product))))
        up == \/ rest > 50000000
              \/ rest = 50000000 /\ (tie = "up" \/ (tie = "even" /\ BigOdd(whole)))
    IN  BigToNat(whole) + (IF up THEN 1 ELSE 0)

ToUSD(e) == e.op = "convertToUSD"
FromUSD(e) == e.op = "convertFromUSD"
Converted(e) == e.currency # "USD" /\ e.value # <<>>

C13_DecimalExact ==
    /\ \A i \in DOMAIN conversions :
           (ToUSD(conversions[i]) /\ conversions[i].currency = "USD")
           => conversions[i].value = <<conversions[i].amount>>
    /\ \E tie \in TieRules :
           \A i \in DOMAIN conversions :
               (ToUSD(conversions[i]) /\ Converted(conversions[i]))
               => LET e == conversions[i]
                  IN  e.value[1] = DecimalProduct(e.amount, DecimalOf(e.cache[e.currency]), tie)

(***************************************************************************)
(* C14: a round trip convertFromUSD(convertToUSD(a, c), c) with the rates  *)
(* of initializeExchangeRates, for a currency c other than USD, gives back *)
(* a to within 0.0001.                                                     *)
(***************************************************************************)
\* conversions[i] took a to the peg currency and conversions[j] took the
\* result back, with the same rates
RoundTrip(i, j) ==
    /\ i < j
    /\ ToUSD(conversions[i]) /\ Converted(conversions[i])
    /\ FromUSD(conversions[j]) /\ Converted(conversions[j])
    /\ conversions[j].currency = conversions[i].currency
    /\ conversions[j].amount = conversions[i].value[1]
    /\ conversions[j].cache = conversions[i].cache
    /\ DecimalOf(conversions[i].cache[conversions[i].currency])
           = InitialRates[conversions[i].currency]

Distance(a, b) == IF a >= b THEN a - b ELSE b - a

C14_RoundTripClose ==
    \A i, j \in DOMAIN conversions :
        RoundTrip(i, j) => Distance(conversions[j].value[1], conversions[i].amount) <= 1

(***************************************************************************)
(* C14, amended: the round trip gives back a to within 0.0001 / rate(c) in *)
(* the local currency, that is to within 0.0001 in the peg currency, for   *)
(* amounts of at most 4 fractional digits up to 10^9.                      *)
(***************************************************************************)
C14_RoundTripWithinPegTolerance ==
    \A i, j \in DOMAIN conversions :
        RoundTrip(i, j)
        => BigCmp(BigMul(BigFromNat(Distance(conversions[j].value[1], conversions[i].amount)),
                         BigFromNat(InitialRates[conversions[i].currency])),
                  BigFromNat(100000000)) <= 0

\* 100 IDR went to 0.0063 USD and came back as 99.2126 IDR.
C14_Witness ==
    \E i, j \in DOMAIN conversions :
        /\ RoundTrip(i, j)
        /\ conversions[i].currency = "IDR"
        /\ conversions[j].value[1] # conversions[i].amount

(***************************************************************************)
(* C15: convertToUSD and convertFromUSD, called with a currency other than *)
(* USD, throw an error that names the currency exactly when the cache has  *)
(* no entry for it, return nothing then, return a value for every currency *)
(* cached with a rate above 0, and leave the cache as it is.               *)
(***************************************************************************)
C15_Entry(e) ==
    e.currency # "USD"
    => /\ e.message # <<>> <=> e.currency \notin DOMAIN e.cache
       /\ e.message # <<>> => (e.value = <<>> /\ e.currency \in Elements(e.message))
       /\ (e.currency \in DOMAIN e.cache /\ e.cache[e.currency].m # <<>>) => e.value # <<>>

C15_RateNotFound ==
    [][conversions' # conversions
       => /\ exchangeRatesCache' = exchangeRatesCache
          /\ \A i \in DOMAIN conversions' : C15_Entry(conversions'[i])]_vars

\* One conversion threw for a currency without a rate, another returned a
\* value from a loaded cache.
C15_Witness ==
    \E i, j \in DOMAIN conversions :
        /\ conversions[i].message # <<>> /\ conversions[i].currency = "SGD"
        /\ DOMAIN conversions[i].cache # {}
        /\ Converted(conversions[j]) /\ FromUSD(conversions[j])

(***************************************************************************)
(* C16: a refresh of the cache is atomic for the conversions of other      *)
(* callers.  The cache changes only in one step from the set it held to    *)
(* the complete set of rates a find() returned (or to the empty cache of   *)
(* clearAllData), a reply that is a failure leaves it as it was, and every *)
(* conversion reads a cache that holds all the rates of one rate table or  *)
(* none.                                                                   *)
(***************************************************************************)
\* cache holds the rates of the table `rates`, all of them and nothing else
Snapshot(cache, rates) ==
    /\ DOMAIN cache = DOMAIN rates
    /\ \A c \in DOMAIN rates : cache[c] = NearestDouble[rates[c]]

RateTables == {NoEntries, InitialRates}

C16_RefreshAtomic ==
    [][/\ \/ exchangeRatesCache' = exchangeRatesCache
          \/ \E reply \in loading :
                 reply.ok /\ loading' = loading \ {reply}
                          /\ Snapshot(exchangeRatesCache', reply.rates)
          \/ loading' = loading /\ Snapshot(exchangeRatesCache', exchangeRates')
       /\ \A reply \in loading :
              (~reply.ok /\ loading' = loading \ {reply})
              => exchangeRatesCache' = exchangeRatesCache
       /\ \A i \in DOMAIN conversions' :
              \E rates \in RateTables : Snapshot(conversions'[i].cache, rates)]_vars

\* A conversion ran while a refresh awaited its reply, and read the empty
\* cache; the next one ran after the reply and read the rates.
C16_Witness ==
    /\ Len(conversions) = 2
    /\ conversions[1].during /\ conversions[1].cache = NoEntries
    /\ ~conversions[2].during /\ Snapshot(conversions[2].cache, InitialRates)

(***************************************************************************)
(* C17: after a recalculation that completes successfully with no date, no *)
(* limit and no other writer, every listing whose currency is USD or has a *)
(* rate in the cache has priceUSD = convertToUSD(priceLocal, currency)     *)
(* under the cache as it is then, and every listing in another currency    *)
(* than USD carries the timestamp of the recalculation.                    *)
(***************************************************************************)
Command == command[1]
Succeeded == command # <<>> /\ Command.result.value # <<>>
Report == Command.result.value[1]

Recalculations == {"recalculateUSDPrices", "recalculateUSDPricesAggregation"}
Checks == {"checkRecordsToUpdate", "checkRecordsToUpdateDetailed"}

Unfiltered == Command.args = <<>> \/ Command.args = <<None, None>>

C17_PegPriceAfterRecalculation ==
    (Succeeded /\ Command.name \in Recalculations /\ Unfiltered)
    => \A k \in DOMAIN listings :
           LET doc == listings[k]
           IN  /\ (doc.currency = "USD" \/ ~NoRate(exchangeRatesCache, doc.currency))
                  => <<doc.priceUSD>>
                         = convertToUSD(exchangeRatesCache, doc.priceLocal, doc.currency).value
               /\ doc.currency # "USD" => doc.convertedAt = now

(***************************************************************************)
(* C18: checkRecordsToUpdate and recalculateUSDPricesAggregation, given    *)
(* the same (updateSinceDate, limit) on the same listings, report the same *)
(* numbers: totalAvailable is the number of listings in another currency   *)
(* than USD (converted before the date when one is given), and             *)
(* recordsToProcess is min(limit, totalAvailable), totalAvailable when no  *)
(* limit is given.                                                         *)
(***************************************************************************)
C18_Report(docs, name, args, report) ==
    LET totalAvailable == Cardinality(Matching(docs, args[1]))
    IN  /\ report.totalAvailable = totalAvailable
        /\ report.recordsToProcess =
               IF args[2] = None THEN totalAvailable ELSE Min(args[2][1], totalAvailable)

C18_DryRunSymmetry ==
    [][(Succeeded' /\ Command'.name \in Checks \cup {"recalculateUSDPricesAggregation"})
       => C18_Report(listings, Command'.name, Command'.args, Report')]_vars

(***************************************************************************)
(* C19: checkRecordsToUpdate and checkRecordsToUpdateDetailed leave every  *)
(* listing, the rate table and the exchange-rate cache as they were,       *)
(* whatever the arguments and the state before, an empty cache included.   *)
(***************************************************************************)
C19_DryRunMutatesNothing ==
    [][(command' # <<>> /\ Command'.name \in Checks)
       => /\ listings' = listings
          /\ exchangeRates' = exchangeRates
          /\ exchangeRatesCache' = exchangeRatesCache]_vars

(***************************************************************************)
(* C20: recalculateUSDPricesAggregation(updateSinceDate, limit) modifies   *)
(* at most limit listings, each in another currency than USD and, when a   *)
(* date is given, converted before it; it changes neither priceLocal nor   *)
(* currency, adds and removes no listing, and when every listing was       *)
(* converted before the present instant, updatedRecords is the number of   *)
(* listings modified.                                                      *)
(***************************************************************************)
Modified == { k \in DOMAIN listings : listings'[k] # listings[k] }

C20_RecalculationScope ==
    [][(command' # <<>> /\ Command'.name = "recalculateUSDPricesAggregation")
       => /\ DOMAIN listings' = DOMAIN listings
          /\ Command'.args[2] # None => Cardinality(Modified) <= Max(Command'.args[2][1], 0)
          /\ \A k \in Modified :
                 /\ listings[k].currency # "USD"
                 /\ Command'.args[1] # None => listings[k].convertedAt < Command'.args[1][1]
                 /\ listings'[k].priceLocal = listings[k].priceLocal
                 /\ listings'[k].currency = listings[k].currency
          /\ (Succeeded' /\ \A k \in DOMAIN listings : listings[k].convertedAt < now)
             => Report'.updatedRecords = Cardinality(Modified)]_vars

(***************************************************************************)
(* C25: Hash Round-Robin ordering: a call on a category returns, and its   *)
(* full sequence lists the category in ascending order of (bucket, rating  *)
(* descending, createdAt descending) with bucket = ((f(sellerId) + seed) * *)
(* (seed + 37)) mod 10000, where f(sellerId) is the number after the 7th   *)
(* character and is 1 for identifiers shorter than 8 characters and for    *)
(* identifiers with no numeric suffix.                                     *)
(***************************************************************************)
\* f(sellerId) as the specification defines it.
NumericSuffix(sellerId) ==
    LET n == IF Len(sellerId) > 7 THEN ToInt(SubstrFrom(sellerId, 7)) ELSE None
    IN  IF n = None THEN 1 ELSE n[1]

Bucket(d, seed) == ((NumericSuffix(d.sellerId) + seed) * (seed + 37)) % 10000

BucketKey(d, seed) == <<Bucket(d, seed), 0 - d.rating, 0 - d.createdAt>>

C25_HashOrdering ==
    \A i \in DOMAIN hist :
        hist[i].req.method = "hash"
        => LET e == hist[i]
           IN  /\ Returns(e)
               /\ ListsOnce(e.full, Listed(e))
               /\ \A k \in DOMAIN e.full : \A m \in DOMAIN e.full :
                     k < m => ~LexLess(BucketKey(e.full[m], e.seed[1]),
                                       BucketKey(e.full[k], e.seed[1]))

(***************************************************************************)
(* C26: Hash Round-Robin fairness: when a category has listings of two     *)
(* sellers or more, no full page of pageSize >= 2 of the Hash Round-Robin  *)
(* ordering holds the listings of one seller only while a listing of       *)
(* another seller stands on a later page.                                  *)
(***************************************************************************)
C26_HashInterleaves ==
    \A i \in DOMAIN hist :
        LET e == hist[i]
        IN  ( /\ e.req.method = "hash" /\ Returns(e)
              /\ e.req.page >= 1
              /\ PageSize(e) >= 2
              /\ Len(e.offers) = PageSize(e)
              /\ Cardinality(SellersOf(Listed(e))) >= 2 )
            => ~ /\ Cardinality(SellersOf(Elements(e.offers))) = 1
                 /\ \E k \in DOMAIN e.full :
                       /\ k > SkipOf(e) + PageSize(e)
                       /\ e.full[k].sellerId # e.offers[1].sellerId

(***************************************************************************)
(* C29: True Round-Robin completeness: the interleaved sequence of a call  *)
(* lists every listing of the category exactly once, a seller's listings   *)
(* stand in it in (rating, createdAt) descending order, and the pages      *)
(* 1..totalPages requested one after the other under one seed hold every   *)
(* listing of the category exactly once.                                   *)
(***************************************************************************)
C29_Interleaving(e) ==
    /\ ListsOnce(e.full, Listed(e))
    /\ \A k \in DOMAIN e.full : \A m \in DOMAIN e.full :
          (k < m /\ e.full[k].sellerId = e.full[m].sellerId)
          => ~Better(e.full[m], e.full[k])

C29_TrueRoundRobinComplete ==
    /\ \A i \in DOMAIN hist :
          (hist[i].req.method = "true" /\ Returns(hist[i])) => C29_Interleaving(hist[i])
    /\ ( /\ hist # <<>>
          /\ \A i \in DOMAIN hist :
                /\ hist[i].req.method = "true"
                /\ Returns(hist[i])
                /\ hist[i].req.page = i
                /\ hist[i].seed = hist[1].seed
                /\ PageSize(hist[i]) = PageSize(hist[1])
          /\ Len(hist) = hist[1].pagination.totalPages )
        => ListsOnce(Flatten([i \in DOMAIN hist |-> hist[i].offers]), Listed(hist[1]))

(***************************************************************************)
(* C30: hasNextPage is truthful: for each strategy, on unchanged data, a   *)
(* result for page p >= 1 that reports hasNextPage = true is followed by a *)
(* non-empty result when page p + 1 is requested with the same arguments,  *)
(* and the page of a request with 1 <= page <= totalPages is non-empty.    *)
(***************************************************************************)
C30_Truthful(methods) ==
    /\ \A i \in DOMAIN hist : \A j \in DOMAIN hist :
          ( /\ hist[i].req.method \in methods
            /\ Returns(hist[i]) /\ Returns(hist[j])
            /\ hist[i].req.page >= 1
            /\ hist[j].req = [hist[i].req EXCEPT !.page = @ + 1]
            /\ hist[i].pagination.hasNextPage )
          => hist[j].offers # <<>>
    /\ \A i \in DOMAIN hist :
          ( /\ hist[i].req.method \in methods
            /\ Returns(hist[i])
            /\ hist[i].req.page >= 1
            /\ hist[i].req.page <= hist[i].pagination.totalPages )
          => hist[i].offers # <<>>

C30_HasNextPageTruthful == C30_Truthful({"hash", "true", "weighted", "quota"})

(***************************************************************************)
(* C21: recalculation is not transactional: a write of a pass gives a      *)
(* listing the peg price of the local price the pass read, whatever        *)
(* another client has stored since, and touches no listing the pass did    *)
(* not read; the loop of recalculateUSDPrices leaves the stored local      *)
(* price as it is, the $merge of the aggregation puts the one it read      *)
(* back.  So a pass can complete and leave a listing, updated by another   *)
(* client between its read and its write, with pegPrice different from     *)
(* toPeg(localPrice, currency).                                            *)
(***************************************************************************)
C21_Write ==
    ( /\ running # <<>> /\ running' # <<>>
      /\ running'[1].todo # running[1].todo )
    => LET k == CHOOSE j \in running[1].todo : j \notin running'[1].todo
           read == running[1].read[k]
           loop == running[1].name = "recalculateUSDPrices"
       IN  /\ \A j \in DOMAIN listings' \ {k} :
                 j \in DOMAIN listings /\ listings'[j] = listings[j]
           /\ k \in DOMAIN listings'
              => /\ listings'[k].priceUSD =
                       IF loop
                       THEN convertToUSD(exchangeRatesCache, read.priceLocal,
                                         read.currency).value[1]
                       ELSE NewPriceUSD(exchangeRatesCache, read)
                 /\ listings'[k].priceLocal =
                       IF loop THEN listings[k].priceLocal ELSE read.priceLocal

C21_NotTransactional == [][C21_Write]_vars

\* recalculateUSDPrices has just completed, and a listing does not have the
\* peg price of its local price.
C21_Witness ==
    /\ running = <<>>
    /\ command # <<>>
    /\ command[1].name = "recalculateUSDPrices"
    /\ command[1].result.value # <<>>
    /\ \E k \in DOMAIN listings :
          /\ listings[k].currency # "USD"
          /\ listings[k].priceUSD # convertToUSD(exchangeRatesCache, listings[k].priceLocal,
                                                 listings[k].currency).value[1]

(***************************************************************************)
(* C22: ExchangeRate invariant: once setup has run, and after any number   *)
(* of rate updates, the persisted rate table has a record for each         *)
(* supported currency and for no other, the peg currency USD has rate      *)
(* exactly 1 and every rate is greater than 0; the table is empty before   *)
(* setup and after the full reset, and a step that takes a record away is  *)
(* a step of clearAllData.                                                 *)
(***************************************************************************)
C22_Table ==
    \/ exchangeRates = NoEntries
    \/ /\ DOMAIN exchangeRates = currencies
       /\ exchangeRates[pegCurrency] = 100000000
       /\ \A c \in currencies : exchangeRates[c] > 0

C22_Disappear ==
    (\E c \in DOMAIN exchangeRates : c \notin DOMAIN exchangeRates')
    => /\ exchangeRates' = NoEntries
       /\ listings' = NoEntries
       /\ exchangeRatesCache' = NoEntries

C23_Step ==
    (command' # <<>> /\ command'[1].name = "update-rates")
    => /\ command'[1].result.calls = <<"updateExchangeRates", "recalculateUSDPrices">>
       /\ DOMAIN exchangeRates' = DOMAIN exchangeRates
       /\ \A c \in DOMAIN exchangeRates :
             IF c = pegCurrency THEN exchangeRates'[c] = exchangeRates[c]
             ELSE Distance(exchangeRates'[c], exchangeRates[c]) * 50 <= exchangeRates[c]
       /\ command'[1].result.value # <<>>
          => /\ Snapshot(exchangeRatesCache', exchangeRates')
             /\ \A k \in DOMAIN listings' :
                   listings'[k].currency # pegCurrency
                   => listings'[k].priceUSD =
                          convertToUSD(exchangeRatesCache', listings'[k].priceLocal,
                                       listings'[k].currency).value[1]

C23_RateUpdateFlow == [][C23_Step]_vars

(***************************************************************************)
(* C24: the cache follows the rate table: when initializeExchangeRates or  *)
(* updateExchangeRates has written the table and returned without raising  *)
(* an error, the exchange-rate cache maps exactly the currencies of the    *)
(* persisted table to their persisted rates, with no entry left over from  *)
(* before.                                                                 *)
(***************************************************************************)
C24_Written == exchangeRates' # exchangeRates /\ exchangeRates' # NoEntries

C24_CacheFollowsTable ==
    [][C24_Written => Snapshot(exchangeRatesCache', exchangeRates')]_vars

(***************************************************************************)
(* C27: missing rates in recalculation: a listing whose currency has no    *)
(* rate in the exchange-rate cache is skipped by                           *)
(* recalculateUSDPricesAggregation: the run leaves its pegPrice and its    *)
(* conversion timestamp unchanged.                                         *)
(***************************************************************************)
C27_Step ==
    (command' # <<>> /\ command'[1].name = "recalculateUSDPricesAggregation")
    => \A k \in DOMAIN listings :
           listings[k].currency \notin DOMAIN exchangeRatesCache'
           => /\ listings'[k].priceUSD = listings[k].priceUSD
              /\ listings'[k].convertedAt = listings[k].convertedAt

C27_MissingRatesSkipped == [][C27_Step]_vars

(***************************************************************************)
(* C28: batch progress: when recalculateUSDPricesAggregation is run again  *)
(* and again with the same arguments and a limit L, on N > L available     *)
(* records that were last converted before the first run, and no other     *)
(* client writes, then after ceil(N / L) runs every record that was        *)
(* available to the first run has been recalculated.                       *)
(***************************************************************************)
C28_BatchProgress ==
    ( /\ running # <<>> /\ running[1].name = "batches"
      /\ DOMAIN listings = DOMAIN running[1].before
      /\ \A k \in running[1].available :
            running[1].before[k].convertedAt < running[1].startedAt
      /\ Cardinality(running[1].available) > running[1].args[2][1]
      /\ running[1].runs >= MathCeilDiv(Cardinality(running[1].available),
                                         running[1].args[2][1]) )
    => \A k \in running[1].available :
           listings[k].convertedAt >= running[1].startedAt

=============================================================================
